---- MODULE Spec2Model ----
(***************************************************************************)
(* Quiz question synthesis engine: SimpleQuizGenerator, AIQuizGenerator,   *)
(* EnhancedAIQuizGenerator and RobustQuizGenerator.                        *)
(*                                                                         *)
(* A Python string is a sequence of atoms; an atom is a run of characters  *)
(* written as a TLA+ string (the Macedonian literals are transliterated).  *)
(* Concatenation is \o, `x in s` is Contains(s, x).  Python indices are    *)
(* kept 0-based (correct_answer); TLA+ sequences are 1-based.              *)
(***************************************************************************)
EXTENDS Integers, Sequences, FiniteSets, TLC

\* ---------------------------------------------------------------- bounds
MaxQuestions == 2
MaxPool == 4
MaxTemplates == 2
MaxScore == 1
MaxBlocks == 2
MaxKeywords == 4

\* calls in progress at a time on one generator object
MaxCalls == 2

\* questions requested by the calls in progress, together
MaxBatch == 2

\* sentences of a short text
MaxSentences == 3

\* explained terms at the head of a long text
MaxFill == 9

\* pieces of a text given letter by letter
MaxPieces == 5

\* words of a text given word by word
MaxWords == 2

\* --------------------------------------------------------------- helpers
Min(a, b) == IF a <= b THEN a ELSE b

Range(s) == {s[k] : k \in 1..Len(s)}

Injective(s) == \A a, b \in 1..Len(s) : s[a] = s[b] => a = b

\* s[:k]
Take(s, k) == SubSeq(s, 1, Min(k, Len(s)))

\* [x for x in s if x /= e]
RECURSIVE Without(_, _)
Without(s, e) ==
    IF s = <<>> THEN <<>>
    ELSE IF Head(s) = e THEN Without(Tail(s), e)
         ELSE <<Head(s)>> \o Without(Tail(s), e)

\* needle in hay (substring test, at the granularity of atoms)
Contains(hay, needle) ==
    \E k \in 0..(Len(hay) - Len(needle)) :
        SubSeq(hay, k + 1, k + Len(needle)) = needle

\* len(s) in characters
RECURSIVE CharLen(_)
CharLen(s) == IF s = <<>> THEN 0 ELSE Len(Head(s)) + CharLen(Tail(s))

\* the outcomes of random.shuffle on a list of n elements
Perms(n) == {p \in [1..n -> 1..n] : \A a, b \in 1..n : p[a] = p[b] => a = b}

\* the list after random.shuffle drew the permutation p
Shuffle(s, p) == [k \in 1..Len(s) |-> s[p[k]]]

\* the outcomes of random.sample(s, k): k distinct positions of s, in any order
Samples(s, k) ==
    {q \in [1..k -> 1..Len(s)] : \A a, b \in 1..k : q[a] = q[b] => a = b}

\* list.index(x), 0-based: the first position holding x
IndexOf(s, x) ==
    CHOOSE k \in 0..(Len(s) - 1) :
        /\ s[k + 1] = x
        /\ \A j \in 0..(k - 1) : s[j + 1] /= x

\* template.format(concept=c): a template is <<text before, text after>> the placeholder
Format(template, c) == template[1] \o c \o template[2]

\* s[:k] + "..." if len(s) > k else s   (k in characters; whole atoms are kept)
RECURSIVE TakeChars(_, _)
TakeChars(s, k) ==
    IF s = <<>> \/ Len(Head(s)) > k THEN <<>>
    ELSE <<Head(s)>> \o TakeChars(Tail(s), k - Len(Head(s)))

Truncate(s, k) == IF CharLen(s) > k THEN TakeChars(s, k) \o <<"...">> ELSE s

\* str.lower() on the capitalized terms the model uses
LowerAtom(a) ==
    CASE a = "Energija" -> "energija"
      [] a = "Sila" -> "sila"
      [] a = "Brzina" -> "brzina"
      [] a = "Pritisok" -> "pritisok"
      [] a = "Telo" -> "telo"
      [] a = "Metod" -> "metod"
      [] a = "Prav" -> "prav"
      [] a = "Pogreshen" -> "pogreshen"
      [] OTHER -> a

Lower(s) == [k \in 1..Len(s) |-> LowerAtom(s[k])]

\* ------------------------------------------------------- concept strings
Energija == <<"Energija">>
Sila == <<"Sila">>
Brzina == <<"Brzina">>
Pritisok == <<"Pritisok">>
Telo == <<"Telo">>
Metod == <<"Metod">>
Prav == <<"Prav">>
Pravilen == <<"Prav", "ilen">>
Pogreshen == <<"Pogreshen">>

\* ------------------------------------------------- SimpleQuizGenerator
\* self.question_templates
SimpleTemplates ==
    << <<<<"Shto e ">>, <<"?">>>>,
       <<<<"Koi se karakteristikite na ">>, <<"?">>>>,
       <<<<"Kako funkcionira ">>, <<"?">>>>,
       <<<<"Zoshto e vazhno ">>, <<"?">>>>,
       <<<<"Koga se koristi ">>, <<"?">>>> >>

\* the word the index scan looks for, and the two option prefixes
SimpleNeedle == <<"Prav", "ilen">>

SimpleCorrectPrefix == <<"Prav", "ilen", " odgovor za ">>

SimpleWrongPrefix == <<"Pogreshen", " odgovor za ">>

\* the position the scan after the shuffle reports: the first option that
\* contains the concept and the needle, 0 when none does
SimpleScan(options, correct_concept) ==
    LET hits == {k \in 0..(Len(options) - 1) :
                    /\ Contains(options[k + 1], correct_concept)
                    /\ Contains(options[k + 1], SimpleNeedle)}
    IN IF hits = {} THEN 0
       ELSE CHOOSE k \in hits : \A j \in hits : k <= j

\* generate_options(correct_concept, all_concepts): the results it can
\* return, one for each outcome of random.sample and random.shuffle
SimpleGenerateOptions(correct_concept, all_concepts) ==
    LET correct == SimpleCorrectPrefix \o correct_concept
        wrong_concepts == Without(all_concepts, correct_concept)
        options(sample) ==
            <<correct>> \o [k \in 1..Len(sample) |->
                               SimpleWrongPrefix \o wrong_concepts[sample[k]]]
    IN UNION {
         {[options |-> Shuffle(options(sample), perm),
           correct_index |-> SimpleScan(Shuffle(options(sample), perm), correct_concept),
           correct_answer |-> correct] : perm \in Perms(Len(options(sample)))}
         : sample \in Samples(wrong_concepts, Min(3, Len(wrong_concepts)))}

\* ----------------------------------------------------- AIQuizGenerator
\* self.question_templates
AITemplates(subject) ==
    CASE subject = "physics" ->
           << <<<<"Shto e ">>, <<" vo fizikata?">>>>,
              <<<<"Kako se presmetuva ">>, <<"?">>>>,
              <<<<"Koi se edinicite za ">>, <<"?">>>>,
              <<<<"Kakov e principot na ">>, <<"?">>>>,
              <<<<"Shto vlijae na ">>, <<"?">>>>,
              <<<<"Kako se primenuva ">>, <<"?">>>> >>
      [] subject = "biology" ->
           << <<<<"Shto e ">>, <<" vo biologijata?">>>>,
              <<<<"Kade se naogja ">>, <<"?">>>>,
              <<<<"Kako funkcionira ">>, <<"?">>>>,
              <<<<"Zoshto e vazhen ">>, <<"?">>>>,
              <<<<"Shto se sluchuva ako nedostasuva ">>, <<"?">>>> >>
      [] subject = "chemistry" ->
           << <<<<"Shto e ">>, <<" vo hemijata?">>>>,
              <<<<"Kako se formira ">>, <<"?">>>>,
              <<<<"Koi se svojstvata na ">>, <<"?">>>>,
              <<<<"Shto se sluchuva koga ">>, <<" reagira?">>>>,
              <<<<"Kade se koristi ">>, <<"?">>>> >>
      [] OTHER ->
           << <<<<"Shto e ">>, <<"?">>>>,
              <<<<"Koi se karakteristikite na ">>, <<"?">>>>,
              <<<<"Kako funkcionira ">>, <<"?">>>>,
              <<<<"Zoshto e vazhno ">>, <<"?">>>>,
              <<<<"Koga se koristi ">>, <<"?">>>>,
              <<<<"Kakov e efektot na ">>, <<"?">>>>,
              <<<<"Shto predizvikuva ">>, <<"?">>>>,
              <<<<"Kako se meri ">>, <<"?">>>> >>

\* a classifier in which a tie goes to the later subject
detect_subject_strict(physics_score, biology_score, chemistry_score) ==
    IF physics_score > biology_score /\ physics_score > chemistry_score
    THEN "physics"
    ELSE IF biology_score > chemistry_score THEN "biology"
    ELSE IF chemistry_score > 0 THEN "chemistry"
    ELSE "general"

\* detect_subject as a function of the three keyword scores
detect_subject(physics_score, biology_score, chemistry_score) ==
    IF physics_score >= biology_score /\ physics_score >= chemistry_score
    THEN "physics"
    ELSE IF biology_score >= chemistry_score THEN "biology"
    ELSE IF chemistry_score > 0 THEN "chemistry"
    ELSE "general"

\* generate_options(correct_concept, all_concepts, subject): the results it
\* can return, one for each outcome of random.shuffle
AIGenerateOptions(correct_concept, all_concepts, subject) ==
    LET correct == <<"Tochno - ">> \o correct_concept
                       \o <<" e vazhen koncept vo ", subject>>
        wrong_concepts == Without(all_concepts, correct_concept)
        wrong_options ==
            IF Len(wrong_concepts) >= 3
            THEN << <<"Pogreshno - ">> \o wrong_concepts[1]
                        \o <<" ne e povrzan so ova prashanje">>,
                    <<"Ne tochno - ">>
                        \o (IF Len(wrong_concepts) > 1 THEN wrong_concepts[2]
                            ELSE <<"ovoj koncept">>)
                        \o <<" e razlichen">>,
                    <<"Netochno - ">>
                        \o (IF Len(wrong_concepts) > 2 THEN wrong_concepts[3]
                            ELSE <<"ovaa opcija">>)
                        \o <<" ne odgovara">> >>
            ELSE << <<"Ova ne e tochen odgovor">>,
                    <<"Ovaa opcija e pogreshna">>,
                    <<"Netochno">> >>
        options == <<correct>> \o wrong_options
    IN {[options |-> Shuffle(options, perm),
         correct_index |-> IndexOf(Shuffle(options, perm), correct),
         correct_answer |-> correct] : perm \in Perms(Len(options))}

\* --------------------------------------------- EnhancedAIQuizGenerator
\* self.question_templates (the families with one placeholder)
EnhancedTemplates(family) ==
    CASE family = "definition" ->
           << <<<<"Shto e ">>, <<"?">>>>,
              <<<<"Kako se definira ">>, <<"?">>>>,
              <<<<"Shto se podrazbira pod ">>, <<"?">>>>,
              <<<<"Koja e definicijata za ">>, <<"?">>>> >>
      [] family = "characteristics" ->
           << <<<<"Koi se karakteristikite na ">>, <<"?">>>>,
              <<<<"Shto se svojstvata na ">>, <<"?">>>>,
              <<<<"Kakvi se osobinite na ">>, <<"?">>>>,
              <<<<"Koi se glavnite karakteristiki na ">>, <<"?">>>> >>
      [] family = "function" ->
           << <<<<"Kako funkcionira ">>, <<"?">>>>,
              <<<<"Kako raboti ">>, <<"?">>>>,
              <<<<"Shto e funkcijata na ">>, <<"?">>>>,
              <<<<"Kako se koristi ">>, <<"?">>>> >>
      [] family = "calculation" ->
           << <<<<"Kako se presmetuva ">>, <<"?">>>>,
              <<<<"Koja e formulata za ">>, <<"?">>>>,
              <<<<"Kako se izrazuva ">>, <<" matematichki?">>>>,
              <<<<"Shto e ravenkata za ">>, <<"?">>>> >>
      [] OTHER ->
           << <<<<"Zoshto e vazhno ">>, <<"?">>>>,
              <<<<"Shto e znachenjeto na ">>, <<"?">>>>,
              <<<<"Zoshto se izuchuva ">>, <<"?">>>>,
              <<<<"Kakvo e praktichnoto znachenje na ">>, <<"?">>>> >>

\* the generic wrong answers of generate_definition_options
EnhancedGenericWrong ==
    << <<"Toa e pogreshen odgovor za ovoj koncept">>,
       <<"Ova ne odgovara na definicijata">>,
       <<"Ova ne e tochna karakteristika">> >>

\* the loop `for other_concept in other_concepts[:3]`: the truncated context
\* of every other concept that has one
RECURSIVE EnhancedContexts(_)
EnhancedContexts(others) ==
    IF others = <<>> THEN <<>>
    ELSE (IF Head(others).context /= <<>>
          THEN <<Truncate(Head(others).context, 100)>> ELSE <<>>)
         \o EnhancedContexts(Tail(others))

\* the loop `while len(wrong_options) < 3`
RECURSIVE EnhancedFill(_)
EnhancedFill(wrong_options) ==
    IF Len(wrong_options) < 3
    THEN EnhancedFill(Append(wrong_options,
                             EnhancedGenericWrong[Len(wrong_options) + 1]))
    ELSE wrong_options

\* [c for c in all_concepts if c['term'] != concept['term']]
RECURSIVE OtherConcepts(_, _)
OtherConcepts(all_concepts, term) ==
    IF all_concepts = <<>> THEN <<>>
    ELSE (IF Head(all_concepts).term /= term THEN <<Head(all_concepts)>> ELSE <<>>)
         \o OtherConcepts(Tail(all_concepts), term)

\* generate_definition_options(concept, all_concepts)
generate_definition_options(concept, all_concepts) ==
    LET correct == Truncate(concept.context, 100)
        other_concepts == OtherConcepts(all_concepts, concept.term)
        wrong_options ==
            EnhancedFill(IF Len(other_concepts) >= 3
                         THEN EnhancedContexts(Take(other_concepts, 3))
                         ELSE <<>>)
        options == <<correct>> \o wrong_options
    IN {[options |-> Shuffle(options, perm),
         correct_index |-> IndexOf(Shuffle(options, perm), correct),
         correct_answer |-> correct] : perm \in Perms(Len(options))}

\* generate_function_options(concept, all_concepts)
generate_function_options(concept, all_concepts) ==
    LET context == concept.context
        correct ==
            IF \/ Contains(Lower(context), <<"funkcionira">>)
               \/ Contains(Lower(context), <<"raboti">>)
            THEN Truncate(context, 120)
            ELSE concept.term \o <<" funkcionira spored principite opishani vo tekstot">>
        wrong_options ==
            << concept.term \o <<" funkcionira na sprotiven nachin od opishaniot">>,
               concept.term \o <<" ne funkcionira kako shto e opishano">>,
               concept.term \o <<" funkcionira nezavisno od osnovnite principi">> >>
        options == <<correct>> \o wrong_options
    IN {[options |-> Shuffle(options, perm),
         correct_index |-> IndexOf(Shuffle(options, perm), correct),
         correct_answer |-> correct] : perm \in Perms(Len(options))}

\* generate_characteristic_options(concept, all_concepts)
generate_characteristic_options(concept, all_concepts) ==
    LET correct == <<"Glavnite karakteristiki na ">> \o concept.term
                       \o <<" se opishani vo tekstot">>
        wrong_options ==
            << concept.term \o <<" nema specifichni karakteristiki">>,
               <<"Karakteristikite na ">> \o concept.term \o <<" se nepoznati">>,
               concept.term \o <<" ima karakteristiki razlichni od opishanite">> >>
        options == <<correct>> \o wrong_options
    IN {[options |-> Shuffle(options, perm),
         correct_index |-> IndexOf(Shuffle(options, perm), correct),
         correct_answer |-> correct] : perm \in Perms(Len(options))}

\* the branch of generate_enhanced_simple on concept['type']
EnhancedFamily(concept) ==
    IF concept.type = "definition" THEN "definition"
    ELSE IF concept.type = "technical" THEN "function"
    ELSE "characteristics"

EnhancedGenerateOptions(concept, all_concepts) ==
    IF concept.type = "definition"
    THEN generate_definition_options(concept, all_concepts)
    ELSE IF concept.type = "technical"
    THEN generate_function_options(concept, all_concepts)
    ELSE generate_characteristic_options(concept, all_concepts)

\* ------------------------------------------------- RobustQuizGenerator
\* self.question_templates
RobustTemplates ==
    << <<<<"Shto e ">>, <<"?">>>>,
       <<<<"Kako se definira ">>, <<"?">>>>,
       <<<<"Koi se karakteristikite na ">>, <<"?">>>>,
       <<<<"Kako funkcionira ">>, <<"?">>>>,
       <<<<"Zoshto e vazhen ">>, <<"?">>>>,
       <<<<"Kade se koristi ">>, <<"?">>>>,
       <<<<"Kakov e principot na ">>, <<"?">>>>,
       <<<<"Shto predizvikuva ">>, <<"?">>>>,
       <<<<"Kako se meri ">>, <<"?">>>>,
       <<<<"Koi se edinicite za ">>, <<"?">>>> >>

\* the keys of self.physics_knowledge
physics_knowledge_keys ==
    { <<"energija">>, <<"sila">>, <<"brzina">>, <<"zabrzuvanje">>, <<"masa">>,
      <<"pritisok">>, <<"temperatura">>, <<"toplina">>, <<"elektrichna">>,
      <<"magnetna">>, <<"oscilacija">>, <<"branovi">>, <<"atom">> }

\* self.physics_knowledge[key]['definition']
physics_knowledge_definition(key) ==
    CASE key = <<"energija">> -> <<"Sposobnost za vrshenje rabota">>
      [] key = <<"sila">> -> <<"Vlijanie shto go menuva dvizhenjeto na teloto">>
      [] key = <<"brzina">> -> <<"Promena na polozhbata vo vreme">>
      [] key = <<"zabrzuvanje">> -> <<"Promena na brzinata vo vreme">>
      [] key = <<"masa">> -> <<"Kolichestvo materija vo telo">>
      [] key = <<"pritisok">> -> <<"Sila po edinica povrshina">>
      [] key = <<"temperatura">> -> <<"Mera za toplinskata energija">>
      [] key = <<"toplina">> -> <<"Energija shto se prenesuva poradi temperaturna razlika">>
      [] key = <<"elektrichna">> -> <<"Svrpzana so elektrichni polnezhi">>
      [] key = <<"magnetna">> -> <<"Svrpzana so magnetni polinja">>
      [] key = <<"oscilacija">> -> <<"Periodichno dvizhenje okolu ramnotezhna polozhba">>
      [] key = <<"branovi">> -> <<"Prenos na energija bez prenos na materija">>
      [] OTHER -> <<"Najmala edinica na element">>

\* [c for c in all_concepts if c.lower() != concept_lower]
RECURSIVE RobustOthers(_, _)
RobustOthers(all_concepts, concept_lower) ==
    IF all_concepts = <<>> THEN <<>>
    ELSE (IF Lower(Head(all_concepts)) /= concept_lower
          THEN <<Head(all_concepts)>> ELSE <<>>)
         \o RobustOthers(Tail(all_concepts), concept_lower)

\* the loop `for other_concept in other_concepts[:2]`
RECURSIVE RobustDefinitions(_)
RobustDefinitions(others) ==
    IF others = <<>> THEN <<>>
    ELSE (IF Lower(Head(others)) \in physics_knowledge_keys
          THEN <<physics_knowledge_definition(Lower(Head(others)))>> ELSE <<>>)
         \o RobustDefinitions(Tail(others))

\* generate_realistic_options(concept, all_concepts)
generate_realistic_options(concept, all_concepts) ==
    LET concept_lower == Lower(concept)
        known == concept_lower \in physics_knowledge_keys
        correct ==
            IF known THEN physics_knowledge_definition(concept_lower)
            ELSE concept \o <<" e vazhen koncept vo fizikata">>
        wrong_options ==
            IF known
            THEN RobustDefinitions(Take(RobustOthers(all_concepts, concept_lower), 2))
                 \o << <<"Ova ne e tochna definicija za ">> \o concept,
                       concept \o <<" se definira poinaku">>,
                       <<"Ova ne odgovara na ">> \o concept >>
            ELSE << concept \o <<" ne e fizichki koncept">>,
                    concept \o <<" se koristi vo drugi nauki">>,
                    concept \o <<" nema fizichko znachenje">> >>
        options == <<correct>> \o Take(wrong_options, 3)
    IN {[options |-> Shuffle(options, perm),
         correct_index |-> IndexOf(Shuffle(options, perm), correct),
         correct_answer |-> correct] : perm \in Perms(Len(options))}

\* ------------------------------------------------------ parse_questions
\* The reply text is a sequence of atoms: the question marker, "\n", " ",
\* ":", the option prefixes "A)".."D)", the words of the answer marker, and
\* other words.
QuestionMarker == "Prashanje"

AnswerMarker == <<"Tochen odgovor", ":">>

OptionPrefixes == {"A)", "B)", "C)", "D)"}

Whitespace == {" ", "\n", "\t"}

\* str.split(sep): the segments between the occurrences of sep
Split(s, sep) ==
    LET at == {k \in 1..Len(s) : s[k] = sep}
        \* position of the j-th occurrence; 0 before the first, Len(s)+1 after the last
        pos(j) == IF j = 0 THEN 0
                  ELSE IF j > Cardinality(at) THEN Len(s) + 1
                  ELSE CHOOSE k \in at : Cardinality({q \in at : q < k}) = j - 1
    IN [j \in 1..(Cardinality(at) + 1) |-> SubSeq(s, pos(j - 1) + 1, pos(j) - 1)]

\* str.strip()
RECURSIVE LStrip(_)
LStrip(s) ==
    IF s /= <<>> /\ Head(s) \in Whitespace THEN LStrip(Tail(s)) ELSE s

RECURSIVE RStrip(_)
RStrip(s) ==
    IF s /= <<>> /\ s[Len(s)] \in Whitespace
    THEN RStrip(SubSeq(s, 1, Len(s) - 1)) ELSE s

Strip(s) == RStrip(LStrip(s))

\* str.replace(a, '')
RECURSIVE RemoveAll(_, _)
RemoveAll(s, a) ==
    IF s = <<>> THEN <<>>
    ELSE (IF Head(s) = a THEN <<>> ELSE <<Head(s)>>) \o RemoveAll(Tail(s), a)

\* [line.strip() for line in block.split('\n') if line.strip()]
RECURSIVE StrippedLines(_)
StrippedLines(segments) ==
    IF segments = <<>> THEN <<>>
    ELSE (IF Strip(Head(segments)) /= <<>> THEN <<Strip(Head(segments))>> ELSE <<>>)
         \o StrippedLines(Tail(segments))

\* line.startswith(prefix)
StartsWith(line, prefix) ==
    Len(line) >= Len(prefix) /\ SubSeq(line, 1, Len(prefix)) = prefix

\* the loop `for line in lines[1:]`: acc holds options and correct_answer
\* (found is FALSE while correct_answer is None)
RECURSIVE ScanLines(_, _)
ScanLines(lines, acc) ==
    IF lines = <<>> THEN acc
    ELSE LET line == Head(lines)
         IN IF Head(line) \in OptionPrefixes
            THEN ScanLines(Tail(lines),
                           [acc EXCEPT !.options = Append(@, Strip(Tail(line)))])
            ELSE IF StartsWith(line, AnswerMarker)
            THEN ScanLines(Tail(lines),
                           [acc EXCEPT !.found = TRUE,
                                       !.correct_answer = Strip(Split(line, ":")[2])])
            ELSE ScanLines(Tail(lines), acc)

\* a table that counts the letters from 1
letter_to_index_shifted(letter) ==
    CASE letter = <<"A">> -> 1
      [] letter = <<"B">> -> 2
      [] letter = <<"C">> -> 3
      [] letter = <<"D">> -> 4
      [] OTHER -> 0

\* letter_to_index.get(correct_answer, 0)
letter_to_index(letter) ==
    CASE letter = <<"A">> -> 0
      [] letter = <<"B">> -> 1
      [] letter = <<"C">> -> 2
      [] letter = <<"D">> -> 3
      [] OTHER -> 0

\* the body of the loop over the blocks: the questions (none or one) a
\* block yields
ParseBlock(block) ==
    LET lines == StrippedLines(Split(block, "\n"))
        scan == ScanLines(Tail(lines),
                          [options |-> <<>>, found |-> FALSE, correct_answer |-> <<>>])
    IN IF Strip(block) = <<>> \/ Len(lines) < 6 THEN <<>>
       ELSE IF Len(scan.options) = 4 /\ scan.found /\ scan.correct_answer /= <<>>
       THEN << [question |-> Strip(RemoveAll(lines[1], ":")),
                options |-> scan.options,
                correct_answer |-> letter_to_index(scan.correct_answer)] >>
       ELSE <<>>

\* a loop that gives up the whole reply at the first block it rejects
ParseBlocksStopAtMalformed(blocks) ==
    IF \E k \in 1..Len(blocks) : ParseBlock(blocks[k]) = <<>> THEN <<>>
    ELSE [k \in 1..Len(blocks) |-> ParseBlock(blocks[k])[1]]

RECURSIVE ParseBlocks(_)
ParseBlocks(blocks) ==
    IF blocks = <<>> THEN <<>>
    ELSE ParseBlock(Head(blocks)) \o ParseBlocks(Tail(blocks))

\* parse_questions(generated_text)
parse_questions(generated_text) ==
    ParseBlocks(Tail(Split(generated_text, QuestionMarker)))

\* QuizGenerator.parse_questions: the same loop, but the dict keeps the
\* text after the marker as it is (no letter_to_index)
QuizParseBlock(block) ==
    LET lines == StrippedLines(Split(block, "\n"))
        scan == ScanLines(Tail(lines),
                          [options |-> <<>>, found |-> FALSE, correct_answer |-> <<>>])
    IN IF Strip(block) = <<>> \/ Len(lines) < 6 THEN <<>>
       ELSE IF Len(scan.options) = 4 /\ scan.found /\ scan.correct_answer /= <<>>
       THEN << [question |-> Strip(RemoveAll(lines[1], ":")),
                options |-> scan.options,
                correct_answer |-> scan.correct_answer] >>
       ELSE <<>>

RECURSIVE QuizParseBlocks(_)
QuizParseBlocks(blocks) ==
    IF blocks = <<>> THEN <<>>
    ELSE QuizParseBlock(Head(blocks)) \o QuizParseBlocks(Tail(blocks))

quiz_parse_questions(generated_text) ==
    QuizParseBlocks(Tail(Split(generated_text, QuestionMarker)))

\* a Python value with its type: an int, a str
PyInt(n) == [int |-> n]

PyStr(t) == [str |-> t]

\* what the parse_questions of class g returns, the type of every
\* correct_answer made explicit
ParserOutput(g, generated_text) ==
    IF g = "quiz"
    THEN LET qs == quiz_parse_questions(generated_text)
         IN [k \in 1..Len(qs) |-> [qs[k] EXCEPT !.correct_answer = PyStr(@)]]
    ELSE LET qs == parse_questions(generated_text)
         IN [k \in 1..Len(qs) |-> [qs[k] EXCEPT !.correct_answer = PyInt(@)]]

\* ------------------------------------------------------- reply texts
\* 'Prashanje 1: X' and the lines of a block
QuestionLine == <<QuestionMarker, " ", "1", ":", " ", "X", "\n">>

OptionLine(prefix, text) == <<prefix, " ", text, "\n">>

AnswerLine(letter) == AnswerMarker \o <<" ", letter, "\n">>

FourOptions ==
    OptionLine("A)", "a") \o OptionLine("B)", "b")
        \o OptionLine("C)", "c") \o OptionLine("D)", "d")

\* a block in the requested format
GoodBlock(letter) == QuestionLine \o FourOptions \o AnswerLine(letter)

\* a block with three option lines only
ShortBlock ==
    QuestionLine \o OptionLine("A)", "a") \o OptionLine("B)", "b")
        \o OptionLine("C)", "c") \o AnswerLine("A")

\* a block of six lines that names no correct answer
UnmarkedBlock == QuestionLine \o FourOptions \o <<"Objasnuvanje", " ", "x", "\n">>

ReplyBlocks == {GoodBlock("A"), GoodBlock("C"), ShortBlock, UnmarkedBlock}

Preambles == {<<>>, <<"Eve gi prashanjata", ":", "\n">>}

RECURSIVE Concat(_)
Concat(ss) == IF ss = <<>> THEN <<>> ELSE Head(ss) \o Concat(Tail(ss))

\* the reply texts of the remote service: a preamble and up to MaxBlocks blocks
Replies ==
    {pre \o Concat(bs) : pre \in Preambles,
                         bs \in UNION {[1..k -> ReplyBlocks] : k \in 0..MaxBlocks}}

\* the first line of a block: the marker, ' 1: ' and the prompt
PromptLine(prompt) == <<QuestionMarker, " ", "1", ":", " ">> \o prompt \o <<"\n">>

\* the line 'A) a' for an option text of several atoms
OptionTextLine(prefix, text) == <<prefix, " ">> \o text \o <<"\n">>

\* the correct-answer line with the given text after the marker
AnswerTextLine(text) == AnswerMarker \o text \o <<"\n">>

\* the block 'Prashanje 1: X / A) a / B) b / C) c / D) d / Tochen odgovor: L'
RoundTripBlock(prompt, o, letter) ==
    PromptLine(prompt)
        \o OptionTextLine("A)", o[1]) \o OptionTextLine("B)", o[2])
        \o OptionTextLine("C)", o[3]) \o OptionTextLine("D)", o[4])
        \o AnswerTextLine(<<" ", letter>>)

\* prompts: plain, with a colon inside, ending with the marker word
Prompts ==
    {<<"X">>, <<"Shto e", ":", " ", "X", "?">>, <<"Koe e", " ", QuestionMarker>>}

\* option texts: plain, empty, with the marker word inside, with a
\* trailing blank, all equal
OptionTuples ==
    {<< <<"a">>, <<"b">>, <<"c">>, <<"d">> >>,
     << <<"a", " ", "b">>, <<"b">>, <<"c">>, <<>> >>,
     << <<QuestionMarker, " ", "a">>, <<"b">>, <<"c">>, <<"d">> >>,
     << <<"a">>, <<"b">>, <<"c">>, <<"d", " ">> >>,
     << <<"a">>, <<"a">>, <<"a">>, <<"a">> >>}

Letters == {"A", "B", "C", "D"}

RoundTripBlocks ==
    {RoundTripBlock(x, o, l) : x \in Prompts, o \in OptionTuples, l \in Letters}

\* what can follow the correct-answer marker on its line
AnswerTexts ==
    {<<" ", "B">>, <<" ", "c">>, <<" ", "C)", " ", "c">>,
     <<" ", "D", ":", " ", "zatoa">>, <<>>, <<" ">>}

\* the option lines of a block with 3, 4 or 5 options
OptionLineSets ==
    {OptionLine("A)", "a") \o OptionLine("B)", "b") \o OptionLine("C)", "c")
         \o <<"Objasnuvanje", " ", "x", "\n">>,
     FourOptions,
     FourOptions \o OptionLine("D)", "e")}

\* blocks with and without a correct-answer line
VariantBlocks ==
    {QuestionLine \o ol \o AnswerTextLine(t) : ol \in OptionLineSets, t \in AnswerTexts}
    \cup {QuestionLine \o ol \o <<"Objasnuvanje", " ", "x", "\n">> : ol \in OptionLineSets}

\* four option lines out of alphabetical order, and with a repeated prefix
ReorderedOptionLines ==
    {OptionLine("B)", "b") \o OptionLine("A)", "a")
         \o OptionLine("C)", "c") \o OptionLine("D)", "d"),
     OptionLine("A)", "a") \o OptionLine("A)", "x")
         \o OptionLine("B)", "b") \o OptionLine("C)", "c")}

\* blocks with such option lines, and blocks with two correct-answer lines
ReorderedBlocks ==
    {QuestionLine \o ol \o AnswerLine(l) : ol \in ReorderedOptionLines, l \in Letters}
    \cup {QuestionLine \o FourOptions \o AnswerLine(a) \o AnswerLine(b) :
             a \in {"A", "C"}, b \in {"A", "C"}}

\* the texts parse_questions is called on: one block of any kind after a
\* preamble, and the reply texts of several blocks
ParserTexts ==
    {pre \o b : pre \in Preambles,
                 b \in RoundTripBlocks \cup VariantBlocks \cup ReorderedBlocks}
    \cup Replies

\* what requests.post and response.json() can produce: an exception
\* (transport error, timeout), a status other than 200, status 200 with a
\* body that is not the expected JSON, status 200 with a reply text
Responses ==
    {[kind |-> k, status |-> 0, body |-> "none", text |-> <<>>] :
        k \in {"transport_error", "timeout"}}
    \cup {[kind |-> "response", status |-> st, body |-> "none", text |-> <<>>] :
             st \in {401, 429, 500}}
    \cup {[kind |-> "response", status |-> 200, body |-> "malformed", text |-> <<>>]}
    \cup {[kind |-> "response", status |-> 200, body |-> "json", text |-> t] :
             t \in Replies}

\* ------------------------------------------------------------- inputs
\* all lists without repetition over the set S
InjSeqs(S) ==
    UNION {{q \in [1..k -> S] : Injective(q)} : k \in 0..Cardinality(S)}

\* the elements of the list u at the positions in P, in the order of u
RECURSIVE PickAt(_, _, _)
PickAt(u, P, k) ==
    IF k > Len(u) THEN <<>>
    ELSE (IF k \in P THEN <<u[k]>> ELSE <<>>) \o PickAt(u, P, k + 1)

\* the non-empty sublists of u of at most MaxPool elements
Sublists(u) ==
    {PickAt(u, P, 1) : P \in {Q \in SUBSET (1..Len(u)) :
                                 Q /= {} /\ Cardinality(Q) <= MaxPool}}

\* sorted(..., key=confidence, reverse=True): a stable sort on the three
\* confidence values the extractor assigns (0.9, 0.8, 0.7, in tenths)
RECURSIVE WithConfidence(_, _)
WithConfidence(s, conf) ==
    IF s = <<>> THEN <<>>
    ELSE (IF Head(s).confidence = conf THEN <<Head(s)>> ELSE <<>>)
         \o WithConfidence(Tail(s), conf)

SortByConfidence(s) ==
    WithConfidence(s, 9) \o WithConfidence(s, 8) \o WithConfidence(s, 7)

\* contexts a definition or explanation clause can capture
CtxA == <<"sposobnost za vrshenje rabota">>

CtxB == <<"merka za inertnosta na teloto">>

CtxFunc == <<"uredot ", "funkcionira", " so pomosh na pritisok">>

\* 'Se spomenuva {count} pati vo tekstot'
FrequentContext(count) == <<"Se spomenuva ", ToString(count), " pati vo tekstot">>

\* the records extract_meaningful_concepts can build for a term
DefinitionRecord(term, ctx) ==
    [term |-> term, type |-> "definition", context |-> ctx, confidence |-> 9]

TechnicalRecord(term, ctx) ==
    [term |-> term, type |-> "technical", context |-> ctx, confidence |-> 8]

FrequentRecord(term, count) ==
    [term |-> term, type |-> "frequent", context |-> FrequentContext(count),
     confidence |-> 7]

EnhancedRecords(term) ==
    {DefinitionRecord(term, CtxA), DefinitionRecord(term, CtxB),
     TechnicalRecord(term, CtxFunc), FrequentRecord(term, 2)}

\* the concept lists extract_meaningful_concepts can return over the terms
\* of a list: one record per term, ordered by confidence
EnhancedPoolsOver(terms) ==
    {SortByConfidence([k \in 1..Len(terms) |-> f[k]]) :
        f \in {g \in [1..Len(terms) -> UNION {EnhancedRecords(terms[k]) : k \in 1..Len(terms)}] :
                  \A k \in 1..Len(terms) : g[k].term = terms[k]}}

\* the terms the option assemblers are called with
SimpleTerms == <<Telo, Metod, Prav, Pravilen, Pogreshen>>

AITerms == <<Telo, Metod, Prav, Pravilen, Pogreshen>>

RobustTerms == <<Energija, Sila, Brzina, Pritisok, Telo>>

EnhancedTerms == <<Telo, Metod, Prav, Pogreshen>>

\* the terms of the chapters the pipelines are run on
ChapterTerms == {Telo, Metod}

\* the subjects detect_subject can return
Subjects ==
    {detect_subject(p, b, c) : p \in 0..MaxScore, b \in 0..MaxScore, c \in 0..MaxScore}

Generators == {"simple", "ai", "enhanced", "robust"}

\* A chapter text is represented by what the generator reads off it: the
\* list its concept extractor returns and the three keyword scores of
\* detect_subject.
NoScores == <<0, 0, 0>>

Scores == {<<p, b, c>> : p \in 0..MaxScore, b \in 0..MaxScore, c \in 0..MaxScore}

Chapters(g, terms) ==
    IF g = "ai"
    THEN [concepts : InjSeqs(terms), scores : Scores, sentences : {<<>>}]
    ELSE IF g = "enhanced"
    THEN [concepts : UNION {EnhancedPoolsOver(t) : t \in InjSeqs(terms)},
          scores : {NoScores}, sentences : {<<>>}]
    ELSE [concepts : InjSeqs(terms), scores : {NoScores}, sentences : {<<>>}]

\* ------------------------------------------------------ chapter texts
\* A text that is spelled out is a list of sentences 'Term copula context.':
\* the term a list of letters, the context a list of words.  (The field
\* sentences of a chapter is empty when the chapter is given by what the
\* extractor returns.)
\* the letters of the classes [A-Ya] and [a-ya] that Macedonian uses
UpperRange ==
    {"A", "B", "V", "G", "D", "E", "Zh", "Z", "I", "K", "L", "M", "N", "O",
     "P", "R", "S", "T", "U", "F", "H", "C", "Ch", "Sh"}

LowerRange ==
    {"a", "b", "v", "g", "d", "e", "zh", "z", "i", "k", "l", "m", "n", "o",
     "p", "r", "s", "t", "u", "f", "h", "c", "ch", "sh"}

\* the Macedonian letters gje, dze, je, lje, nje, kje, dzhe lie outside them
LowerOutside == {"gj", "dz", "j", "lj", "nj", "kj", "dzh"}

Energijata == <<"E", "n", "e", "r", "g", "i", "j", "a", "t", "a">>

Silata == <<"S", "i", "l", "a", "t", "a">>

Edinicata == <<"E", "d", "i", "n", "i", "c", "a", "t", "a">>

Uredot == <<"U", "r", "e", "d", "o", "t">>

\* a context with the letters of its 'ni' spelled out
CtxSpelled == <<"uredot funkcio", "n", "i", "ra so pomosh na pritisok">>

Sentence(term, copula, context) ==
    [term |-> term, copula |-> copula, context |-> context]

EnergySentence == Sentence(Energijata, "e", CtxA)

TextSentences ==
    {EnergySentence,
     Sentence(Silata, "e", CtxB),
     Sentence(Edinicata, "e", CtxA),
     Sentence(Uredot, "predstavuva", CtxSpelled)}

\* text.replace(a + b, '') on a list of letters
RECURSIVE RemovePair(_, _, _)
RemovePair(w, a, b) ==
    IF Len(w) < 2 THEN w
    ELSE IF w[1] = a /\ w[2] = b THEN RemovePair(SubSeq(w, 3, Len(w)), a, b)
    ELSE <<Head(w)>> \o RemovePair(Tail(w), a, b)

\* clean_text on a sentence without digits, repeated letters or the longer
\* artifacts: the replacements of 'ni' and 'chn' by ''
clean_text(sentences) ==
    [k \in 1..Len(sentences) |->
        [sentences[k] EXCEPT
            !.term = RemovePair(RemovePair(@, "n", "i"), "ch", "n"),
            !.context = RemovePair(RemovePair(@, "n", "i"), "ch", "n")]]

\* [A-Ya][a-ya]{lo,hi} followed by white space: the whole word matches
IsTerm(w, lo, hi) ==
    /\ Len(w) >= 1 + lo
    /\ Len(w) <= 1 + hi
    /\ w[1] \in UpperRange
    /\ \A k \in 2..Len(w) : w[k] \in LowerRange

\* the clause a context group [^.!?]{10,hi} captures, when it captures one
Captures(context, hi) == CharLen(context) >= 10

Captured(context, hi) ==
    IF CharLen(context) > hi THEN TakeChars(context, hi) ELSE context

\* the records of the definition pattern, in text order
RECURSIVE DefinitionMatches(_)
DefinitionMatches(sentences) ==
    IF sentences = <<>> THEN <<>>
    ELSE LET st == Head(sentences)
         IN (IF /\ st.copula \in {"e", "se"}
                /\ IsTerm(st.term, 2, 20)
                /\ Captures(st.context, 100)
                /\ Len(st.term) > 3
                /\ CharLen(Strip(Captured(st.context, 100))) > 10
             THEN <<DefinitionRecord(st.term, Strip(Captured(st.context, 100)))>>
             ELSE <<>>)
            \o DefinitionMatches(Tail(sentences))

\* ['TEKST', 'STRANICA', 'POGLAVJE'], in capitals as the list spells them
Stoplist ==
    {<<"T", "E", "K", "S", "T">>,
     <<"S", "T", "R", "A", "N", "I", "C", "A">>,
     <<"P", "O", "G", "L", "A", "V", "J", "E">>}

\* exclude_words of RobustQuizGenerator, in capitals as the set spells them
RobustExcludeWords ==
    Stoplist \cup {<<"S", "L", "I", "K", "A">>, <<"T", "A", "B", "E", "L", "A">>,
                   <<"P", "R", "I", "M", "E", "R">>, <<"Z", "A", "D", "A", "CH", "A">>}

\* the records of the terms counted at least twice (the capitalized words
\* of these texts are the terms of their sentences)
RECURSIVE FrequentMatches(_, _)
FrequentMatches(sentences, all) ==
    IF sentences = <<>> THEN <<>>
    ELSE LET st == Head(sentences)
             count == Cardinality({k \in 1..Len(all) : all[k].term = st.term})
             first == \A k \in 1..(Len(all) - Len(sentences)) : all[k].term /= st.term
         IN (IF /\ IsTerm(st.term, 3, 15)
                /\ Len(st.term) > 3
                /\ st.term \notin Stoplist
                /\ count >= 2
                /\ first
             THEN <<FrequentRecord(st.term, count)>>
             ELSE <<>>)
            \o FrequentMatches(Tail(sentences), all)

\* the records of one technical pattern, in text order
RECURSIVE TechnicalMatches(_, _)
TechnicalMatches(sentences, copula) ==
    IF sentences = <<>> THEN <<>>
    ELSE LET st == Head(sentences)
         IN (IF /\ st.copula = copula
                /\ IsTerm(st.term, 1, Len(st.term))
                /\ Captures(st.context, 80)
                /\ Len(st.term) > 3
                /\ CharLen(Strip(Captured(st.context, 80))) > 10
             THEN <<TechnicalRecord(st.term, Strip(Captured(st.context, 80)))>>
             ELSE <<>>)
            \o TechnicalMatches(Tail(sentences), copula)

\* a loop that keeps the first record of a term whatever comes later
RECURSIVE UniqueKeepFirst(_, _)
UniqueKeepFirst(records, acc) ==
    IF records = <<>> THEN acc
    ELSE IF \E k \in 1..Len(acc) : acc[k].term = Head(records).term
    THEN UniqueKeepFirst(Tail(records), acc)
    ELSE UniqueKeepFirst(Tail(records), Append(acc, Head(records)))

\* the loop over concepts that fills unique_concepts: the first record of
\* a term stays unless a later one has a higher confidence
RECURSIVE Unique(_, _)
Unique(records, acc) ==
    IF records = <<>> THEN acc
    ELSE LET r == Head(records)
             at == {k \in 1..Len(acc) : acc[k].term = r.term}
         IN IF at = {} THEN Unique(Tail(records), Append(acc, r))
            ELSE LET k == CHOOSE q \in at : TRUE
                 IN IF r.confidence > acc[k].confidence
                    THEN Unique(Tail(records), [acc EXCEPT ![k] = r])
                    ELSE Unique(Tail(records), acc)

\* the list concepts before the duplicates are removed
Candidates(sentences) ==
    DefinitionMatches(sentences)
        \o FrequentMatches(sentences, sentences)
        \o TechnicalMatches(sentences, "se definira kako")
        \o TechnicalMatches(sentences, "e")
        \o TechnicalMatches(sentences, "predstavuva")

\* extract_meaningful_concepts(text)
extract_meaningful_concepts(sentences) ==
    Take(SortByConfidence(Unique(Candidates(sentences), <<>>)), 10)

\* the chapters given by their text: up to two different sentences
TextChapters ==
    {[sentences |-> t,
      concepts |-> extract_meaningful_concepts(clean_text(t)),
      scores |-> NoScores] :
        t \in {u \in InjSeqs(TextSentences) : Len(u) <= 2}}

\* ------------------------------------------------------------- state
VARIABLES
    gen,              \* which generator class the object is
    use_openai,       \* self.use_openai
    openai_api_key,   \* self.openai_api_key
    pc,               \* where the call in progress is
    entry,            \* the method the caller invoked
    chapter_content,  \* argument of the call
    num_questions,    \* argument of the call
    concepts,         \* local of the pipeline: the extracted concepts
    subject,          \* local of AIQuizGenerator.generate_simple
    questions,        \* local of the pipeline: the questions built so far
    used_concepts,    \* local of generate_enhanced_simple
    i,                \* loop index of the pipeline
    response,         \* what requests.post produced
    generated_text,   \* the text handed to parse_questions
    in_try,           \* the pipeline runs inside the try block
    result,           \* the value returned to the caller
    assembled,        \* history: what each option assembler call returned
    network_calls,    \* history: number of requests.post calls
    local_runs,       \* history: number of local pipeline runs
    calls,            \* the frames of the calls that run side by side
    question_templates, \* self.question_templates
    physics_knowledge   \* self.physics_knowledge

vars ==
    <<gen, use_openai, openai_api_key, pc, entry, chapter_content,
      num_questions, concepts, subject, questions, used_concepts, i,
      response, generated_text, in_try, result, assembled, network_calls,
      local_runs, calls, question_templates, physics_knowledge>>

config == <<gen, use_openai, openai_api_key, question_templates, physics_knowledge>>

\* the template table __init__ builds for a generator class
QuestionTemplates(g) ==
    IF g = "simple" THEN SimpleTemplates
    ELSE IF g = "ai"
    THEN [s \in {"physics", "biology", "chemistry", "general"} |-> AITemplates(s)]
    ELSE IF g = "enhanced"
    THEN [f \in {"definition", "characteristics", "function"} |-> EnhancedTemplates(f)]
    ELSE IF g = "robust" THEN RobustTemplates
    ELSE <<>>

\* the knowledge table __init__ builds: RobustQuizGenerator alone has one
PhysicsKnowledge(g) ==
    IF g = "robust"
    THEN [key \in physics_knowledge_keys |-> physics_knowledge_definition(key)]
    ELSE <<>>

locals == <<concepts, subject, questions, used_concepts, i>>

\* openai_api_key values: None, the empty string, a key
Keys == {"None", "", "sk-key"}

\* Python truthiness of a key
Truthy(key) == key /= "None" /\ key /= ""

NoResponse == [kind |-> "none", status |-> 0, body |-> "none", text |-> <<>>]

\* the calls that run side by side on the object
CallIds == 1..MaxCalls

\* the frame of a call that has not been made
IdleCall ==
    [pc |-> "idle", chapter_content |-> <<>>, num_questions |-> 0,
     concepts |-> <<>>, questions |-> <<>>, used_concepts |-> {}, i |-> 0,
     result |-> <<>>]

Idle ==
    /\ question_templates = QuestionTemplates(gen)
    /\ physics_knowledge = PhysicsKnowledge(gen)
    /\ calls = [c \in CallIds |-> IdleCall]
    /\ pc = "idle"
    /\ entry = "none"
    /\ chapter_content = [concepts |-> <<>>, scores |-> NoScores, sentences |-> <<>>]
    /\ num_questions = 0
    /\ concepts = <<>>
    /\ subject = "none"
    /\ questions = <<>>
    /\ used_concepts = {}
    /\ i = 0
    /\ response = NoResponse
    /\ generated_text = <<>>
    /\ in_try = FALSE
    /\ result = <<>>
    /\ assembled = <<>>
    /\ network_calls = 0
    /\ local_runs = 0

\* __init__(use_openai, openai_api_key): the key argument, else the
\* OPENAI_API_KEY environment variable.  SimpleQuizGenerator takes neither.
Init ==
    /\ gen \in Generators \ {"simple"}
    /\ use_openai \in BOOLEAN
    /\ \E key \in Keys, env \in Keys :
          openai_api_key = IF Truthy(key) THEN key ELSE env
    /\ Idle

\* the generator as app.py and the main() functions construct it:
\* use_openai=False, no key in the environment
InitLocal ==
    /\ gen \in Generators
    /\ use_openai = FALSE
    /\ openai_api_key = "None"
    /\ Idle

\* ------------------------------------------------------ local pipeline
\* the concepts RobustQuizGenerator.generate_simple falls back to
RobustFallback == <<Energija, Sila, Brzina, Pritisok>>

\* the outcomes of random.choice(templates): a position of the list
TemplateChoices(templates) == 1..Min(Len(templates), MaxTemplates)

\* the dict a pipeline appends to questions
Question(template, term, r) ==
    [question |-> Format(template, term),
     options |-> r.options,
     correct_answer |-> r.correct_index]

\* history record of one option assembler call
Assembled(term, r) ==
    [concept |-> term,
     options |-> r.options,
     correct_index |-> r.correct_index,
     correct_answer |-> r.correct_answer]

\* the pools the option assemblers are called with directly
OptionPools(g) ==
    IF g = "simple" THEN Sublists(SimpleTerms)
    ELSE IF g = "ai" THEN Sublists(AITerms)
    ELSE IF g = "robust" THEN Sublists(RobustTerms)
    ELSE UNION {EnhancedPoolsOver(t) : t \in Sublists(EnhancedTerms)}

\* A caller invokes the option assembler of the generator on a concept of
\* a pool.
CallGenerateOptions ==
    /\ pc = "idle"
    /\ \E pool \in OptionPools(gen) : \E k \in 1..Len(pool) :
         \E r \in (IF gen = "simple" THEN SimpleGenerateOptions(pool[k], pool)
                   ELSE IF gen = "ai"
                   THEN UNION {AIGenerateOptions(pool[k], pool, sb) : sb \in Subjects}
                   ELSE IF gen = "robust" THEN generate_realistic_options(pool[k], pool)
                   ELSE EnhancedGenerateOptions(pool[k], pool)) :
           /\ assembled' = <<Assembled(IF gen = "enhanced" THEN pool[k].term ELSE pool[k], r)>>
           /\ result' = <<r.options, r.correct_index>>
           /\ concepts' = pool
    /\ pc' = "returned"
    /\ entry' = "generate_options"
    /\ UNCHANGED <<config, calls, generated_text, chapter_content, num_questions, subject,
                   questions, used_concepts, i, response, in_try, network_calls, local_runs>>

\* A caller invokes generate_questions(chapter_content, num_questions) on a
\* chapter over the given terms.
CallGenerateQuestions(terms) ==
    /\ pc = "idle"
    /\ chapter_content' \in Chapters(gen, terms)
    /\ num_questions' \in 0..MaxQuestions
    /\ pc' = "generate_questions"
    /\ entry' = "generate_questions"
    /\ UNCHANGED <<config, calls, generated_text, locals, response, in_try, result, assembled,
                   network_calls, local_runs>>

\* `if self.use_openai and self.openai_api_key`
\* (SimpleQuizGenerator.generate_questions is the local pipeline itself)
RemotePreferredKeyOnly == gen /= "simple" /\ Truthy(openai_api_key)

RemotePreferred == gen /= "simple" /\ use_openai /\ Truthy(openai_api_key)

\* generate_questions: the remote path when use_openai and a key are set,
\* else the local pipeline.
generate_questions ==
    /\ pc = "generate_questions"
    /\ IF RemotePreferred
       THEN /\ pc' = "generate_with_openai"
            /\ UNCHANGED local_runs
       ELSE /\ pc' = "local"
            /\ local_runs' = local_runs + 1
    /\ UNCHANGED <<config, calls, generated_text, entry, chapter_content, num_questions, locals,
                   response, in_try, result, assembled, network_calls>>

\* the concepts the pipeline works on: the extracted list, which
\* RobustQuizGenerator.generate_simple replaces by its fallback when empty
LocalConceptsNoFallback(g, extracted) == extracted

LocalConcepts(g, extracted) ==
    IF extracted = <<>> /\ g = "robust" THEN RobustFallback ELSE extracted

\* The pipeline up to its loop: extract the concepts (and the subject),
\* return [] when there are none.  SimpleQuizGenerator.extract_key_concepts
\* raises re.error on every text: the character class of its first pattern
\* holds a reversed range.  RobustQuizGenerator replaces an empty list by
\* its fallback concepts.
StartLocal ==
    /\ pc = "local"
    /\ IF gen = "simple"
       THEN /\ pc' = IF in_try THEN "except" ELSE "raised"
            /\ UNCHANGED <<locals, result>>
       ELSE /\ subject' = IF gen = "ai"
                          THEN detect_subject(chapter_content.scores[1],
                                              chapter_content.scores[2],
                                              chapter_content.scores[3])
                          ELSE subject
            /\ questions' = <<>>
            /\ used_concepts' = {}
            /\ i' = 0
            /\ concepts' = LocalConcepts(gen, chapter_content.concepts)
            /\ IF concepts' = <<>>
               THEN /\ result' = <<>>
                    /\ pc' = "returned"
               ELSE /\ pc' = "loop"
                    /\ UNCHANGED result
    /\ UNCHANGED <<config, calls, generated_text, entry, chapter_content, num_questions, response,
                   in_try, assembled, network_calls, local_runs>>

\* a filter that also rules out the types of the concepts already used
AvailableConceptsOfNewType ==
    {c \in Range(concepts) :
        /\ c.term \notin used_concepts
        /\ \A u \in Range(concepts) : u.term \in used_concepts => u.type /= c.type}

\* [c for c in concepts if c['term'] not in used_concepts]
AvailableConcepts == {c \in Range(concepts) : c.term \notin used_concepts}

\* One pass of `for i in range(min(num_questions, len(concepts)))`.
Iterate ==
    /\ pc = "loop"
    /\ i < Min(num_questions, Len(concepts))
    /\ CASE gen = "ai" ->
              \E concept \in Range(concepts) :
              \E t \in TemplateChoices(AITemplates(subject)) :
              \E r \in AIGenerateOptions(concept, concepts, subject) :
                 /\ questions' = Append(questions,
                                        Question(AITemplates(subject)[t], concept, r))
                 /\ assembled' = Append(assembled, Assembled(concept, r))
                 /\ i' = i + 1
                 /\ UNCHANGED <<used_concepts, pc, result>>
         [] gen = "enhanced" ->
              IF AvailableConcepts = {}
              THEN /\ result' = questions
                   /\ pc' = "returned"
                   /\ UNCHANGED <<questions, assembled, i, used_concepts>>
              ELSE \E concept \in AvailableConcepts :
                   \E t \in TemplateChoices(EnhancedTemplates(EnhancedFamily(concept))) :
                   \E r \in EnhancedGenerateOptions(concept, concepts) :
                      /\ used_concepts' = used_concepts \cup {concept.term}
                      /\ questions' =
                           Append(questions,
                                  Question(EnhancedTemplates(EnhancedFamily(concept))[t],
                                           concept.term, r))
                      /\ assembled' = Append(assembled, Assembled(concept.term, r))
                      /\ i' = i + 1
                      /\ UNCHANGED <<pc, result>>
         [] gen = "robust" ->
              \E t \in TemplateChoices(RobustTemplates) :
              \E r \in generate_realistic_options(concepts[i + 1], concepts) :
                 /\ questions' = Append(questions,
                                        Question(RobustTemplates[t], concepts[i + 1], r))
                 /\ assembled' = Append(assembled, Assembled(concepts[i + 1], r))
                 /\ i' = i + 1
                 /\ UNCHANGED <<used_concepts, pc, result>>
         [] OTHER ->
              \E concept \in Range(concepts) :
              \E t \in TemplateChoices(SimpleTemplates) :
              \E r \in SimpleGenerateOptions(concept, concepts) :
                 /\ questions' = Append(questions,
                                        Question(SimpleTemplates[t], concept, r))
                 /\ assembled' = Append(assembled, Assembled(concept, r))
                 /\ i' = i + 1
                 /\ UNCHANGED <<used_concepts, pc, result>>
    /\ UNCHANGED <<config, calls, generated_text, entry, chapter_content, num_questions, concepts,
                   subject, response, in_try, network_calls, local_runs>>

\* The loop is over: return questions.
FinishLocal ==
    /\ pc = "loop"
    /\ i >= Min(num_questions, Len(concepts))
    /\ result' = questions
    /\ pc' = "returned"
    /\ UNCHANGED <<config, calls, generated_text, entry, chapter_content, num_questions, locals,
                   response, in_try, assembled, network_calls, local_runs>>

\* The local operations of a generator built without remote mode.
NextLocal ==
    \/ CallGenerateOptions
    \/ CallGenerateQuestions(ChapterTerms)
    \/ generate_questions
    \/ StartLocal
    \/ Iterate
    \/ FinishLocal

SpecLocal == InitLocal /\ [][NextLocal]_vars

\* ------------------------------------------------------- remote path
\* the terms of the chapters the remote path is run on
RemoteChapterTerms == {Telo}

\* A caller invokes generate_with_openai(chapter_content, num_questions).
CallGenerateWithOpenai(terms) ==
    /\ pc = "idle"
    /\ chapter_content' \in Chapters(gen, terms)
    /\ num_questions' \in 0..MaxQuestions
    /\ pc' = "generate_with_openai"
    /\ entry' = "generate_with_openai"
    /\ UNCHANGED <<config, calls, generated_text, locals, response, in_try, result, assembled,
                   network_calls, local_runs>>

\* generate_with_openai up to the try block: without a key, the local
\* pipeline; else the prompt is built and the request is about to be sent
generate_with_openai ==
    /\ pc = "generate_with_openai"
    /\ IF ~Truthy(openai_api_key)
       THEN /\ pc' = "local"
            /\ local_runs' = local_runs + 1
       ELSE /\ pc' = "post"
            /\ UNCHANGED local_runs
    /\ UNCHANGED <<config, calls, generated_text, entry, chapter_content, num_questions, locals,
                   response, in_try, result, assembled, network_calls>>

\* where control goes after requests.post: into the try block's if on a
\* response, into the except clause on an exception
AfterPostRetry(resp) ==
    IF resp.kind = "response" THEN "response"
    ELSE IF network_calls < 2 THEN "post" ELSE "except"

AfterPost(resp) == IF resp.kind = "response" THEN "response" ELSE "except"

\* requests.post(..., timeout=30): raises, or returns a response
Post ==
    /\ pc = "post"
    /\ network_calls' = network_calls + 1
    /\ response' \in Responses
    /\ pc' = AfterPost(response')
    /\ UNCHANGED <<config, calls, generated_text, entry, chapter_content, num_questions, locals,
                   in_try, result, assembled, local_runs>>

\* a handler that runs the local pipeline when the reply parses to nothing
HandleResponseFallbackOnEmpty ==
    /\ pc = "response"
    /\ IF response.status = 200
       THEN IF response.body = "json"
            THEN /\ generated_text' = response.text
                 /\ IF parse_questions(generated_text') = <<>>
                    THEN /\ pc' = "local"
                         /\ in_try' = TRUE
                         /\ local_runs' = local_runs + 1
                         /\ UNCHANGED result
                    ELSE /\ result' = parse_questions(generated_text')
                         /\ pc' = "returned"
                         /\ UNCHANGED <<in_try, local_runs>>
            ELSE /\ pc' = "except"
                 /\ UNCHANGED <<in_try, local_runs, result, generated_text>>
       ELSE /\ pc' = "local"
            /\ in_try' = TRUE
            /\ local_runs' = local_runs + 1
            /\ UNCHANGED <<result, generated_text>>
    /\ UNCHANGED <<config, calls, entry, chapter_content, num_questions, locals,
                   response, assembled, network_calls>>

\* the if on response.status_code, inside the try block: on 200 the reply
\* text is read out of the JSON body (which raises when the body is not the
\* expected JSON) and parsed; on another status the local pipeline is run
HandleResponse ==
    /\ pc = "response"
    /\ IF response.status = 200
       THEN IF response.body = "json"
            THEN /\ generated_text' = response.text
                 /\ result' = parse_questions(generated_text')
                 /\ pc' = "returned"
                 /\ UNCHANGED <<in_try, local_runs>>
            ELSE /\ pc' = "except"
                 /\ UNCHANGED <<in_try, local_runs, result, generated_text>>
       ELSE /\ pc' = "local"
            /\ in_try' = TRUE
            /\ local_runs' = local_runs + 1
            /\ UNCHANGED <<result, generated_text>>
    /\ UNCHANGED <<config, calls, entry, chapter_content, num_questions, locals,
                   response, assembled, network_calls>>

\* an except clause that lets the exception reach the caller
ExceptReraise ==
    /\ pc = "except"
    /\ pc' = "raised"
    /\ UNCHANGED <<config, calls, generated_text, entry, chapter_content, num_questions, locals,
                   response, in_try, result, assembled, network_calls,
                   local_runs>>

\* an except branch that also switches the object to local generation
ExceptDisablesRemote ==
    /\ pc = "except"
    /\ pc' = "local"
    /\ in_try' = FALSE
    /\ local_runs' = local_runs + 1
    /\ use_openai' = FALSE
    /\ UNCHANGED <<gen, openai_api_key, question_templates, physics_knowledge, calls,
                   generated_text, entry, chapter_content, num_questions, locals,
                   response, result, assembled, network_calls>>

\* except Exception: the local pipeline
Except ==
    /\ pc = "except"
    /\ pc' = "local"
    /\ in_try' = FALSE
    /\ local_runs' = local_runs + 1
    /\ UNCHANGED <<config, calls, generated_text, entry, chapter_content, num_questions, locals,
                   response, result, assembled, network_calls>>

Next ==
    \/ CallGenerateQuestions(RemoteChapterTerms)
    \/ CallGenerateWithOpenai(RemoteChapterTerms)
    \/ generate_questions
    \/ generate_with_openai
    \/ Post
    \/ HandleResponse
    \/ Except
    \/ StartLocal
    \/ Iterate
    \/ FinishLocal

Spec == Init /\ [][Next]_vars

\* ------------------------------------------------------- direct calls
\* the keyword scores of the texts detect_subject is called on
KeywordScores ==
    {<<p, b, c>> : p \in 0..MaxKeywords, b \in 0..MaxKeywords, c \in 0..MaxKeywords}

\* the classes whose methods are called on their own
InitDirect ==
    /\ gen \in {"ai", "enhanced", "robust", "quiz"}
    /\ use_openai = FALSE
    /\ openai_api_key = "None"
    /\ Idle

\* A caller invokes AIQuizGenerator.detect_subject(text).
CallDetectSubject ==
    /\ pc = "idle"
    /\ gen = "ai"
    /\ \E sc \in KeywordScores :
          /\ chapter_content' = [chapter_content EXCEPT !.scores = sc]
          /\ subject' = detect_subject(sc[1], sc[2], sc[3])
    /\ pc' = "returned"
    /\ entry' = "detect_subject"
    /\ UNCHANGED <<config, calls, generated_text, num_questions, concepts, questions,
                   used_concepts, i, response, in_try, result, assembled,
                   network_calls, local_runs>>

\* A caller invokes parse_questions(generated_text) of the class.
CallParseQuestions ==
    /\ pc = "idle"
    /\ \E t \in ParserTexts :
          /\ generated_text' = t
          /\ result' = ParserOutput(gen, t)
    /\ pc' = "returned"
    /\ entry' = "parse_questions"
    /\ UNCHANGED <<config, calls, chapter_content, num_questions, locals, response,
                   in_try, assembled, network_calls, local_runs>>

NextDirect ==
    \/ CallDetectSubject
    \/ CallParseQuestions

SpecDirect == InitDirect /\ [][NextDirect]_vars

\* ------------------------------------------------- pipeline on texts
InitText ==
    /\ gen = "enhanced"
    /\ use_openai = FALSE
    /\ openai_api_key = "None"
    /\ Idle

\* A caller invokes generate_questions(chapter_content, num_questions) on a
\* text.
CallGenerateQuestionsOnText ==
    /\ pc = "idle"
    /\ chapter_content' \in TextChapters
    /\ num_questions' \in 0..MaxQuestions
    /\ pc' = "generate_questions"
    /\ entry' = "generate_questions"
    /\ UNCHANGED <<config, calls, generated_text, locals, response, in_try, result,
                   assembled, network_calls, local_runs>>

NextText ==
    \/ CallGenerateQuestionsOnText
    \/ generate_questions
    \/ StartLocal
    \/ Iterate
    \/ FinishLocal

SpecText == InitText /\ [][NextText]_vars

\* ------------------------------------------ direct calls on sentences
\* the letters that tell generated terms apart
TermLetters == <<"a", "b", "v", "g", "d", "e", "z", "k", "l", "m", "o", "p">>

\* 'Terma', 'Termb', ...
Term(k) == <<"T", "e", "r", "m", TermLetters[k]>>

Stranica == <<"S", "t", "r", "a", "n", "i", "c", "a">>

STRANICA == <<"S", "T", "R", "A", "N", "I", "C", "A">>

\* verbs of a sentence: the two the patterns know, and one they do not
Copulas == {"e", "predstavuva", "raste"}

\* short texts: up to MaxSentences sentences about a few terms
ShortTexts ==
    UNION {[1..k -> {Sentence(t, cp, CtxA) :
                        t \in {Silata, Stranica, STRANICA, Energijata},
                        cp \in Copulas}] : k \in 0..MaxSentences}

\* long texts: MaxFill explained terms, then three sentences about two more
LongTexts ==
    {[k \in 1..MaxFill |-> Sentence(Term(k), "predstavuva", CtxB)] \o tl :
        tl \in [1..3 -> {Sentence(Term(MaxFill + j), cp, CtxA) :
                             j \in 1..2, cp \in Copulas}]}

ExtractTexts == ShortTexts \cup LongTexts

InitExtract ==
    /\ gen = "enhanced"
    /\ use_openai = FALSE
    /\ openai_api_key = "None"
    /\ Idle

\* A caller invokes extract_meaningful_concepts(text).
CallExtractMeaningfulConcepts ==
    /\ pc = "idle"
    /\ \E t \in ExtractTexts :
         /\ chapter_content' = [sentences |-> t, concepts |-> <<>>,
                                scores |-> NoScores]
         /\ concepts' = extract_meaningful_concepts(t)
    /\ pc' = "returned"
    /\ entry' = "extract_meaningful_concepts"
    /\ UNCHANGED <<config, calls, generated_text, num_questions, subject,
                   questions, used_concepts, i, response, in_try, result,
                   assembled, network_calls, local_runs>>

NextExtract == CallExtractMeaningfulConcepts

SpecExtract == InitExtract /\ [][NextExtract]_vars

\* ------------------------------------------- clean_text, letter by letter
\* A text is a list of characters: the letters n, i, a, ch, k, e, the digit
\* 1, white space and punctuation.
CyrillicLetters == {"n", "i", "a", "ch", "k", "e"}

Digits == {"1"}

\* \w
WordChars == CyrillicLetters \cup Digits

\* the number of leading characters of text that are in the class
RECURSIVE LeadRun(_, _)
LeadRun(text, class) ==
    IF text = <<>> \/ Head(text) \notin class THEN 0
    ELSE 1 + LeadRun(Tail(text), class)

Drop(text, k) == SubSeq(text, k + 1, Len(text))

\* re.sub(r'\s+', ' ', text)
RECURSIVE CollapseWhitespace(_)
CollapseWhitespace(text) ==
    IF text = <<>> THEN <<>>
    ELSE IF Head(text) \in Whitespace
    THEN <<" ">> \o CollapseWhitespace(Drop(text, LeadRun(text, Whitespace)))
    ELSE <<Head(text)>> \o CollapseWhitespace(Tail(text))

\* re.sub(r'([a-ya])\1{3,}', r'\1', text): 4 or more of one letter become one
RECURSIVE CollapseRepeats(_)
CollapseRepeats(text) ==
    IF text = <<>> THEN <<>>
    ELSE IF Head(text) \in CyrillicLetters /\ LeadRun(text, {Head(text)}) >= 4
    THEN <<Head(text)>>
             \o CollapseRepeats(Drop(text, LeadRun(text, {Head(text)})))
    ELSE <<Head(text)>> \o CollapseRepeats(Tail(text))

\* re.sub(c{min,}, c, text) for a punctuation character c
RECURSIVE CollapsePunctuation(_, _, _)
CollapsePunctuation(text, c, min) ==
    IF text = <<>> THEN <<>>
    ELSE IF Head(text) = c /\ LeadRun(text, {c}) >= min
    THEN <<c>> \o CollapsePunctuation(Drop(text, LeadRun(text, {c})), c, min)
    ELSE <<Head(text)>> \o CollapsePunctuation(Tail(text), c, min)

\* the length of the match of \d{1,2}\.\d{1,2}\.\d{1,2}\b at the head of
\* text, 0 when there is none
SectionNumberAt(text) ==
    LET d1 == LeadRun(text, Digits)
        r1 == Drop(text, d1)
        d2 == LeadRun(Drop(r1, 1), Digits)
        r2 == Drop(r1, 1 + d2)
        d3 == LeadRun(Drop(r2, 1), Digits)
    IN IF /\ d1 \in 1..2 /\ r1 /= <<>> /\ Head(r1) = "."
          /\ d2 \in 1..2 /\ r2 /= <<>> /\ Head(r2) = "."
          /\ d3 \in 1..2
          /\ LeadRun(Drop(r2, 1 + d3), WordChars) = 0
       THEN d1 + 1 + d2 + 1 + d3
       ELSE 0

\* re.sub(r'\b\d{1,2}\.\d{1,2}\.\d{1,2}\b', '', text); prev is the
\* character before text, "" at the start
RECURSIVE RemoveSectionNumbers(_, _)
RemoveSectionNumbers(text, prev) ==
    IF text = <<>> THEN <<>>
    ELSE IF prev \notin WordChars /\ SectionNumberAt(text) > 0
    THEN RemoveSectionNumbers(Drop(text, SectionNumberAt(text)),
                              text[SectionNumberAt(text)])
    ELSE <<Head(text)>> \o RemoveSectionNumbers(Tail(text), Head(text))

\* re.sub(r'\b\d+\b(?=\s*[a-ya])', '', text): a number that stands alone
\* before a letter
RECURSIVE RemoveStandaloneNumbers(_, _)
RemoveStandaloneNumbers(text, prev) ==
    IF text = <<>> THEN <<>>
    ELSE LET d == LeadRun(text, Digits)
             rest == Drop(text, d)
             after == Drop(rest, LeadRun(rest, Whitespace))
         IN IF /\ prev \notin WordChars
               /\ d >= 1
               /\ LeadRun(rest, WordChars) = 0
               /\ after /= <<>>
               /\ Head(after) \in CyrillicLetters
            THEN RemoveStandaloneNumbers(rest, text[d])
            ELSE <<Head(text)>> \o RemoveStandaloneNumbers(Tail(text), Head(text))

\* text.replace(error, '')
RECURSIVE Replace(_, _)
Replace(text, error) ==
    IF Len(text) < Len(error) THEN text
    ELSE IF SubSeq(text, 1, Len(error)) = error
    THEN Replace(Drop(text, Len(error)), error)
    ELSE <<Head(text)>> \o Replace(Tail(text), error)

\* the keys of ocr_replacements, in the order of the dict (a key written
\* twice keeps its first place)
OcrErrors ==
    << <<"n", "n", "i", "n", "a", "n", "i", "n", "a", "n", "a", "n", "a">>,
       <<"n", "i", "n", "i", "n", "i", "n", "i", "n", "i", "n", "i">>,
       <<"n", "n", "i", "n", "a">>,
       <<"n", "i", "n", "a">>,
       <<"n", "i">>,
       <<"a", "!">>,
       <<"ch", "n">>,
       <<"n", "i", "n", "i", "n", "e", "i", "n", "i", "n", "i", "n", "n", "i",
         "n", "n", "i", "n", "i", "n", "n", "a", "n", "i", "n", "i">>,
       <<"n", "i", "n", "i", "i", "n", "i", "i", "n", "i", "n", "i", "n", "i",
         "n", "n", "i", "n", "e", "n", "n", "a", "n", "a", "i">>,
       <<"n", "i", "n", "a", "a", " ", "k", "a", "n", "a">>,
       <<"n", "i", "n", "i">>,
       <<"n", "i", "a">>,
       <<"n", "i", "n", "a", " ", "n", "a", "n", "a">> >>

\* for error, replacement in ocr_replacements.items(): text.replace(...)
RECURSIVE ReplaceEach(_, _)
ReplaceEach(text, errors) ==
    IF errors = <<>> THEN text
    ELSE ReplaceEach(Replace(text, Head(errors)), Tail(errors))

\* clean_text(text) on a text given letter by letter
CleanText(text) ==
    Strip(ReplaceEach(
        CollapsePunctuation(
            CollapsePunctuation(
                RemoveStandaloneNumbers(
                    RemoveSectionNumbers(
                        CollapseRepeats(CollapseWhitespace(text)), ""),
                    ""),
                ".", 3),
            ",", 2),
        OcrErrors))

\* the pieces texts are put together from
TextPieces ==
    {<<" ">>, <<"\n">>, <<"n">>, <<"i">>, <<"a">>, <<"ch">>, <<"!">>,
     <<".">>, <<",">>, <<"1">>, <<"1", ".", "1", ".", "1">>}

InitClean ==
    /\ gen = "enhanced"
    /\ use_openai = FALSE
    /\ openai_api_key = "None"
    /\ Idle

\* A caller invokes clean_text(text).
CallCleanText ==
    /\ pc = "idle"
    /\ \E k \in 0..MaxPieces : \E ps \in [1..k -> TextPieces] :
         /\ generated_text' = Concat(ps)
         /\ result' = CleanText(generated_text')
    /\ pc' = "returned"
    /\ entry' = "clean_text"
    /\ UNCHANGED <<config, calls, chapter_content, num_questions, locals,
                   response, in_try, assembled, network_calls, local_runs>>

NextClean == CallCleanText

SpecClean == InitClean /\ [][NextClean]_vars

\* -------------------------------------------- extractors, word by word
\* A text is a list of words separated by single spaces, a word a list of
\* letters.
Smalls ==
    <<"a", "b", "v", "g", "d", "e", "z", "i", "j", "k", "l", "m", "n", "nj",
      "o", "p", "r", "s", "t", "u", "c", "ch">>

Capitals ==
    <<"A", "B", "V", "G", "D", "E", "Z", "I", "J", "K", "L", "M", "N", "NJ",
      "O", "P", "R", "S", "T", "U", "C", "CH">>

\* str.lower() and str.upper() on a letter
ToLower(c) ==
    IF \E k \in 1..Len(Capitals) : Capitals[k] = c
    THEN Smalls[CHOOSE k \in 1..Len(Capitals) : Capitals[k] = c]
    ELSE c

ToUpper(c) ==
    IF \E k \in 1..Len(Smalls) : Smalls[k] = c
    THEN Capitals[CHOOSE k \in 1..Len(Smalls) : Smalls[k] = c]
    ELSE c

LowerWord(w) == [k \in 1..Len(w) |-> ToLower(w[k])]

UpperWord(w) == [k \in 1..Len(w) |-> ToUpper(w[k])]

\* str.title() on a word
TitleWord(w) == [k \in 1..Len(w) |-> IF k = 1 THEN ToUpper(w[k]) ELSE ToLower(w[k])]

\* the keys of self.physics_knowledge
PhysicsTerms ==
    {<<"e", "n", "e", "r", "g", "i", "j", "a">>,
     <<"s", "i", "l", "a">>,
     <<"b", "r", "z", "i", "n", "a">>,
     <<"z", "a", "b", "r", "z", "u", "v", "a", "nj", "e">>,
     <<"m", "a", "s", "a">>,
     <<"p", "r", "i", "t", "i", "s", "o", "k">>,
     <<"t", "e", "m", "p", "e", "r", "a", "t", "u", "r", "a">>,
     <<"t", "o", "p", "l", "i", "n", "a">>,
     <<"e", "l", "e", "k", "t", "r", "i", "ch", "n", "a">>,
     <<"m", "a", "g", "n", "e", "t", "n", "a">>,
     <<"o", "s", "c", "i", "l", "a", "c", "i", "j", "a">>,
     <<"b", "r", "a", "n", "o", "v", "i">>,
     <<"a", "t", "o", "m">>}

\* alternatives of the technical_terms pattern (the physics ones and DNK)
TechnicalTerms == PhysicsTerms \cup {<<"d", "n", "k">>, <<"z", "v", "u", "k">>}

\* the domain vocabulary of a generator
Vocabulary(g) == IF g = "robust" THEN PhysicsTerms ELSE TechnicalTerms

\* re.sub(r'[nnina]+', '', text) on a word: the small letters n, i, a go
RECURSIVE StripNoise(_)
StripNoise(w) ==
    IF w = <<>> THEN <<>>
    ELSE (IF Head(w) \in {"n", "i", "a"} THEN <<>> ELSE <<Head(w)>>)
         \o StripNoise(Tail(w))

\* the set of concepts of RobustQuizGenerator.clean_and_extract_concepts
\* before concepts[:8]
RobustCandidates(words) ==
    LET cleaned == [k \in 1..Len(words) |-> StripNoise(words[k])]
        known == {TitleWord(term) : term \in
                     {t \in PhysicsTerms :
                         \E k \in 1..Len(cleaned) : LowerWord(cleaned[k]) = t}}
        capitalized == {cleaned[k] : k \in
                           {q \in 1..Len(cleaned) : IsTerm(cleaned[q], 3, 15)}}
    IN (known \cup capitalized) \ RobustExcludeWords

\* the set of concepts of AIQuizGenerator.extract_key_concepts before
\* concepts[:15], for a text without quotes, colons and the verbs e, se
AICandidates(words) ==
    LET capitalized == {words[k] : k \in
                           {q \in 1..Len(words) :
                               IsTerm(words[q], 1, Len(words[q]))}}
        technical == {words[k] : k \in
                         {q \in 1..Len(words) :
                             LowerWord(words[q]) \in TechnicalTerms}}
    IN {c \in capitalized \cup technical : Len(c) > 3 /\ Len(c) < 50}

ExtractorCandidates(g, words) ==
    IF g = "robust" THEN RobustCandidates(words) ELSE AICandidates(words)

\* list(set(...)): the elements in some order
Orderings(set) ==
    {q \in [1..Cardinality(set) -> set] : \A a, b \in DOMAIN q : q[a] = q[b] => a = b}

\* the words of the texts: vocabulary terms in three letter cases, and a
\* capitalized word outside the vocabulary
TextWords ==
    UNION {{t, TitleWord(t), UpperWord(t)} :
              t \in {<<"s", "i", "l", "a">>, <<"a", "t", "o", "m">>,
                      <<"d", "n", "k">>, <<"e", "n", "e", "r", "g", "i", "j", "a">>}}
        \cup {<<"T", "e", "l", "o">>}

InitWords ==
    /\ gen \in {"ai", "robust"}
    /\ use_openai = FALSE
    /\ openai_api_key = "None"
    /\ Idle

\* A caller invokes the extractor of the generator on a text.
CallExtractor ==
    /\ pc = "idle"
    /\ \E n \in 0..MaxWords : \E words \in [1..n -> TextWords] :
         /\ generated_text' = words
         /\ \E order \in Orderings(ExtractorCandidates(gen, words)) :
               concepts' = Take(order, IF gen = "robust" THEN 8 ELSE 15)
    /\ pc' = "returned"
    /\ entry' = "extract_concepts"
    /\ UNCHANGED <<config, calls, chapter_content, num_questions, subject,
                   questions, used_concepts, i, response, in_try, result,
                   assembled, network_calls, local_runs>>

\* the keyword lists of AIQuizGenerator.detect_subject, as they are written
PhysicsKeywords ==
    (PhysicsTerms \ {<<"a", "t", "o", "m">>})
        \cup {<<"f", "i", "z", "i", "k", "a">>, <<"v", "o", "l", "u", "m", "e", "n">>}

BiologyKeywords ==
    {<<"b", "i", "o", "l", "o", "g", "i", "j", "a">>,
     <<"kj", "e", "l", "i", "j", "a">>,
     <<"o", "r", "g", "a", "n", "i", "z", "a", "m">>,
     <<"o", "r", "g", "a", "n">>,
     <<"t", "k", "a", "n", "i", "n", "a">>,
     <<"s", "i", "s", "t", "e", "m">>,
     <<"m", "e", "t", "a", "b", "o", "l", "i", "z", "a", "m">>,
     <<"D", "N", "K">>,
     <<"p", "r", "o", "t", "e", "i", "n">>,
     <<"e", "n", "z", "i", "m">>}

ChemistryKeywords ==
    {<<"h", "e", "m", "i", "j", "a">>,
     <<"a", "t", "o", "m">>,
     <<"m", "o", "l", "e", "k", "u", "l", "a">>,
     <<"s", "o", "e", "d", "i", "n", "e", "n", "i", "e">>,
     <<"r", "e", "a", "k", "c", "i", "j", "a">>,
     <<"e", "l", "e", "m", "e", "n", "t">>,
     <<"p", "e", "r", "i", "o", "d">>,
     <<"o", "k", "s", "i", "d", "a", "c", "i", "j", "a">>,
     <<"r", "e", "d", "u", "k", "c", "i", "j", "a">>}

\* ' '.join(words)
RECURSIVE JoinWords(_)
JoinWords(words) ==
    IF words = <<>> THEN <<>>
    ELSE IF Len(words) = 1 THEN Head(words)
    ELSE Head(words) \o <<" ">> \o JoinWords(Tail(words))

\* sum(1 for keyword in keywords if keyword in text_lower)
KeywordScore(keywords, text_lower) ==
    Cardinality({keyword \in keywords : Contains(text_lower, keyword)})

\* the three scores detect_subject computes for a text
TextScores(text) ==
    LET text_lower == LowerWord(text)
    IN <<KeywordScore(PhysicsKeywords, text_lower),
         KeywordScore(BiologyKeywords, text_lower),
         KeywordScore(ChemistryKeywords, text_lower)>>

\* A caller invokes AIQuizGenerator.detect_subject on a text.
CallDetectSubjectOnText ==
    /\ pc = "idle"
    /\ gen = "ai"
    /\ \E n \in 0..MaxWords : \E words \in [1..n -> TextWords] :
         LET scores == TextScores(JoinWords(words))
         IN /\ generated_text' = words
            /\ chapter_content' = [concepts |-> <<>>, scores |-> scores,
                                   sentences |-> <<>>]
            /\ subject' = detect_subject(scores[1], scores[2], scores[3])
    /\ pc' = "returned"
    /\ entry' = "detect_subject"
    /\ UNCHANGED <<config, calls, num_questions, concepts, questions,
                   used_concepts, i, response, in_try, result, assembled,
                   network_calls, local_runs>>

NextWords ==
    \/ CallExtractor
    \/ CallDetectSubjectOnText

SpecWords == InitWords /\ [][NextWords]_vars

\* ------------------------------------------- calls running side by side
\* quiz_generator is one object; each request calls its generate_questions.
\* A call has its own frame: its arguments and the locals of
\* generate_enhanced_simple.
InitCalls ==
    /\ gen = "enhanced"
    /\ use_openai = FALSE
    /\ openai_api_key = "None"
    /\ Idle

\* the texts of the requests
Masata == <<"M", "a", "s", "a", "t", "a">>

\* the texts of the requests: one definition; four concepts, two of them
\* defined by the same clause
CallTexts ==
    {<<Sentence(Silata, "e", CtxB)>>,
     <<Sentence(Silata, "e", CtxA), Sentence(Edinicata, "e", CtxA),
       Sentence(Masata, "e", CtxB), Sentence(Uredot, "predstavuva", CtxSpelled)>>}

\* the questions the calls in progress were asked for
RECURSIVE Requested(_)
Requested(ids) ==
    IF ids = {} THEN 0
    ELSE LET c == CHOOSE d \in ids : TRUE
         IN calls[c].num_questions + Requested(ids \ {c})

\* used_concepts as call c sees it: the set() made by its own run
UsedConcepts(c) == calls[c].used_concepts

\* generate_questions(chapter_content, num_questions) up to the loop:
\* clean_text, extract_meaningful_concepts, `if not concepts: return []`
Invoke(c) ==
    /\ calls[c].pc = "idle"
    /\ \E text \in CallTexts : \E n \in 0..MaxQuestions :
         LET extracted == extract_meaningful_concepts(clean_text(text))
         IN /\ n + Requested(CallIds) <= MaxBatch
            /\ calls' = [calls EXCEPT ![c] =
                  [pc |-> IF extracted = <<>> THEN "returned" ELSE "loop",
                   chapter_content |-> text, num_questions |-> n,
                   concepts |-> extracted, questions |-> <<>>,
                   used_concepts |-> {}, i |-> 0, result |-> <<>>]]
    /\ UNCHANGED <<config, generated_text, pc, entry, chapter_content,
                   num_questions, locals, response, in_try, result, assembled,
                   network_calls, local_runs>>

\* one pass of the loop of call c
IterateCall(c) ==
    LET f == calls[c]
        available == {x \in Range(f.concepts) : x.term \notin UsedConcepts(c)}
    IN /\ f.pc = "loop"
       /\ f.i < Min(f.num_questions, Len(f.concepts))
       /\ IF available = {}
          THEN calls' = [calls EXCEPT ![c].result = f.questions,
                                      ![c].pc = "returned"]
          ELSE \E concept \in available :
               \E t \in TemplateChoices(EnhancedTemplates(EnhancedFamily(concept))) :
               \E r \in EnhancedGenerateOptions(concept, f.concepts) :
                  calls' = [calls EXCEPT
                      ![c].used_concepts = f.used_concepts \cup {concept.term},
                      ![c].questions =
                          Append(f.questions,
                                 Question(EnhancedTemplates(EnhancedFamily(concept))[t],
                                          concept.term, r)),
                      ![c].i = f.i + 1]
       /\ UNCHANGED <<config, generated_text, pc, entry, chapter_content,
                      num_questions, locals, response, in_try, result,
                      assembled, network_calls, local_runs>>

\* the loop of call c is over: return questions
ReturnCall(c) ==
    /\ calls[c].pc = "loop"
    /\ calls[c].i >= Min(calls[c].num_questions, Len(calls[c].concepts))
    /\ calls' = [calls EXCEPT ![c].result = calls[c].questions,
                              ![c].pc = "returned"]
    /\ UNCHANGED <<config, generated_text, pc, entry, chapter_content,
                   num_questions, locals, response, in_try, result, assembled,
                   network_calls, local_runs>>

NextCalls ==
    \E c \in CallIds : Invoke(c) \/ IterateCall(c) \/ ReturnCall(c)

SpecCalls == InitCalls /\ [][NextCalls]_vars

\* ------------------------------------------------------------ properties
\* a generate_questions or generate_with_openai call has returned
CallReturned == pc = "returned" /\ entry \in {"generate_questions", "generate_with_openai"}

\* the value returned is the list the local pipeline built in this call,
\* for the call's chapter and count
LocalResult ==
    /\ local_runs = 1
    /\ result = questions
    /\ Len(result) = Min(num_questions, Len(concepts))
    /\ concepts = IF chapter_content.concepts = <<>> /\ gen = "robust"
                  THEN <<Energija, Sila, Brzina, Pritisok>>
                  ELSE chapter_content.concepts
    /\ \A k \in 1..Len(result) :
          /\ result[k].options = assembled[k].options
          /\ result[k].correct_answer = assembled[k].correct_index

\* the remote attempt of the call failed: exception, status other than 200,
\* or no key
RemoteFailed ==
    \/ response.kind \in {"transport_error", "timeout"}
    \/ response.kind = "response" /\ response.status /= 200
    \/ entry = "generate_with_openai" /\ ~Truthy(openai_api_key)

\* C1: every option list an option assembler returns, in a pipeline run or
\* called on its own, has exactly 4 entries, whatever the size of the pool.
C1_ExactlyFourOptions ==
    \A k \in 1..Len(assembled) : Len(assembled[k].options) = 4

\* C2: the option strings an option assembler returns are pairwise distinct.
C2_OptionsDistinct ==
    \A k \in 1..Len(assembled) : Injective(assembled[k].options)

\* C3: the reported index is in 0..3 and the option at that index is the
\* string chosen as the correct answer before the shuffle.
C3_IndexPointsAtCorrect ==
    \A k \in 1..Len(assembled) :
        /\ assembled[k].correct_index \in 0..3
        /\ assembled[k].correct_index < Len(assembled[k].options)
        /\ assembled[k].options[assembled[k].correct_index + 1]
               = assembled[k].correct_answer

\* C4: a batch over at least num_questions distinct concepts has no concept
\* as the subject of two of its questions.
C4_NoConceptTwice ==
    (CallReturned /\ local_runs >= 1 /\ Len(concepts) >= num_questions)
        => \A a, b \in 1..Len(assembled) :
               assembled[a].concept = assembled[b].concept => a = b

\* C5: a generate_questions call sends a request only when use_openai is
\* set and the key is non-empty; otherwise it sends none and returns the
\* local pipeline's list.
C5_RemoteOnlyWithModeAndKey ==
    entry = "generate_questions" =>
        /\ network_calls > 0 => (use_openai /\ Truthy(openai_api_key))
        /\ (pc = "returned" /\ ~(use_openai /\ Truthy(openai_api_key)))
              => (network_calls = 0 /\ LocalResult)

C5_Witness ==
    /\ pc = "returned"
    /\ entry = "generate_questions"
    /\ use_openai
    /\ openai_api_key = ""
    /\ Len(result) = 1
    /\ network_calls = 0

\* C6: after a failed remote attempt (status other than 200, transport
\* error, timeout, no key) the call does not raise and returns the local
\* pipeline's list for its chapter and count.
C6_FailureFallsBack ==
    (entry \in {"generate_questions", "generate_with_openai"} /\ RemoteFailed)
        => /\ pc /= "raised"
           /\ pc = "returned" => LocalResult

C6_Witness ==
    /\ pc = "returned"
    /\ entry = "generate_questions"
    /\ response.kind = "timeout"
    /\ Len(result) = 1

\* C7: a call sends at most one request and runs the local pipeline at most
\* once; after a failed request it has run it exactly once when it returns.
C7_NoRetry ==
    /\ network_calls <= 1
    /\ local_runs <= 1
    /\ (CallReturned /\ RemoteFailed) => local_runs = 1

C7_Witness ==
    /\ pc = "returned"
    /\ entry = "generate_questions"
    /\ response.kind = "transport_error"
    /\ network_calls = 1
    /\ local_runs = 1

\* C8: when a 200 reply parses to no question, the call returns the empty
\* list and the local pipeline has not run.
C8_EmptyParseNoFallback ==
    (/\ CallReturned
     /\ response.kind = "response"
     /\ response.status = 200
     /\ response.body = "json"
     /\ parse_questions(response.text) = <<>>)
        => (result = <<>> /\ local_runs = 0 /\ assembled = <<>>)

C8_Witness ==
    /\ pc = "returned"
    /\ entry = "generate_questions"
    /\ response.status = 200
    /\ response.text = ShortBlock \o UnmarkedBlock
    /\ result = <<>>

\* C9: a call returns at most num_questions questions.
C9_AtMostRequested ==
    CallReturned => Len(result) <= num_questions

SubjectReturned == pc = "returned" /\ entry = "detect_subject"

ParseReturned == pc = "returned" /\ entry = "parse_questions"

\* the blocks of the text handed to the parser
TextBlocks == Tail(Split(generated_text, QuestionMarker))

\* C11: detect_subject returns physics when p >= b and p >= c, otherwise
\* biology when b >= c, otherwise chemistry when c > 0, otherwise general.
C11_SubjectByCounts ==
    SubjectReturned =>
        LET p == chapter_content.scores[1]
            b == chapter_content.scores[2]
            c == chapter_content.scores[3]
        IN subject = IF p >= b /\ p >= c THEN "physics"
                     ELSE IF b >= c THEN "biology"
                     ELSE IF c > 0 THEN "chemistry"
                     ELSE "general"

C11_Witness ==
    /\ SubjectReturned
    /\ chapter_content.scores = <<3, 3, 0>>
    /\ subject = "physics"

\* C12: for a text without any keyword (all three counts 0) detect_subject
\* returns general and generate_simple builds its questions from the
\* general templates.
C12_NoKeywordGeneral ==
    (/\ gen = "ai"
     /\ entry = "generate_questions"
     /\ local_runs = 1
     /\ pc \in {"loop", "returned"}
     /\ chapter_content.scores = <<0, 0, 0>>)
        => /\ subject = "general"
           /\ \A k \in 1..Len(questions) :
                 \E t \in 1..Len(AITemplates("general")) :
                    questions[k].question
                        = Format(AITemplates("general")[t], assembled[k].concept)

\* the index of a letter
LetterIndex(l) ==
    CASE l = "A" -> 0 [] l = "B" -> 1 [] l = "C" -> 2 [] l = "D" -> 3

\* the text is one line, has no blank at either end, and does not hold
\* the question marker
PlainText(t) ==
    /\ \A k \in 1..Len(t) : t[k] /= QuestionMarker /\ t[k] /= "\n"
    /\ Strip(t) = t

\* C13: parsing the block built from a prompt, four option texts and a
\* letter yields exactly one question with those options in order and the
\* index of the letter, for every prompt and all option texts.
C13_RoundTripAnyText ==
    (ParseReturned /\ gen /= "quiz") =>
        \A x \in Prompts, o \in OptionTuples, l \in Letters :
            generated_text = RoundTripBlock(x, o, l)
                => /\ Len(result) = 1
                   /\ result[1].options = o
                   /\ result[1].correct_answer = PyInt(LetterIndex(l))

\* C13 as amended: the round trip holds when the prompt and the option
\* texts are single lines without a blank at either end that do not hold
\* the question marker.
C13_RoundTripPlainText ==
    (ParseReturned /\ gen /= "quiz") =>
        \A x \in Prompts, o \in OptionTuples, l \in Letters :
            (/\ generated_text = RoundTripBlock(x, o, l)
             /\ PlainText(x)
             /\ \A k \in 1..4 : PlainText(o[k]))
                => /\ Len(result) = 1
                   /\ result[1].options = o
                   /\ result[1].correct_answer = PyInt(LetterIndex(l))

C13_Witness ==
    /\ ParseReturned
    /\ gen = "robust"
    /\ generated_text
          = RoundTripBlock(<<"Shto e", ":", " ", "X", "?">>,
                           << <<"a", " ", "b">>, <<"b">>, <<"c">>, <<>> >>, "C")
    /\ Len(result) = 1
    /\ result[1].correct_answer = PyInt(2)

\* C14: the prompt of a parsed question is the first line of the block
\* without the marker, its interior kept: 'Prashanje 1: X' gives '1: X'.
C14_PromptKeepsInterior ==
    ParseReturned =>
        \A o \in OptionTuples, l \in Letters :
            (generated_text = RoundTripBlock(<<"X">>, o, l) /\ Len(result) = 1)
                => result[1].question = <<"1", ":", " ", "X">>

\* C15: a block is accepted exactly when 4 option lines were collected and
\* a correct-answer marker line was found; whatever follows the marker, an
\* unrecognized text maps to index 0.
C15_AcceptedIffFourAndMarker ==
    (ParseReturned /\ Len(TextBlocks) = 1) =>
        LET lines == StrippedLines(Split(TextBlocks[1], "\n"))
            rest == Tail(lines)
            option_lines == {k \in 1..Len(rest) : Head(rest[k]) \in OptionPrefixes}
            marker_lines == {k \in 1..Len(rest) :
                                /\ Head(rest[k]) \notin OptionPrefixes
                                /\ StartsWith(rest[k], AnswerMarker)}
        IN /\ Len(result) = 1 <=> (Cardinality(option_lines) = 4 /\ marker_lines /= {})
           /\ (Len(result) = 1 /\ gen /= "quiz")
                 => \E n \in 0..3 :
                       /\ result[1].correct_answer = PyInt(n)
                       /\ \A k \in marker_lines :
                             Strip(Split(rest[k], ":")[2])
                                 \notin {<<"A">>, <<"B">>, <<"C">>, <<"D">>} => n = 0

\* the text from its first question marker on
FromFirstMarker ==
    LET at == {k \in 1..Len(generated_text) : generated_text[k] = QuestionMarker}
    IN IF at = {} THEN <<>>
       ELSE SubSeq(generated_text, CHOOSE k \in at : \A q \in at : k <= q,
                   Len(generated_text))

\* what each block yields when parsed on its own, in order
RECURSIVE EachOnItsOwn(_, _)
EachOnItsOwn(g, blocks) ==
    IF blocks = <<>> THEN <<>>
    ELSE ParserOutput(g, <<QuestionMarker>> \o Head(blocks))
             \o EachOnItsOwn(g, Tail(blocks))

\* C16: parse_questions does not raise; its output is the concatenation,
\* in order, of what each block after a marker yields on its own (no or one
\* question), and the segment before the first marker is discarded.
C16_BlocksIndependent ==
    entry = "parse_questions" =>
        /\ pc = "returned"
        /\ result = EachOnItsOwn(gen, TextBlocks)
        /\ \A k \in 1..Len(TextBlocks) :
              Len(ParserOutput(gen, <<QuestionMarker>> \o TextBlocks[k])) <= 1
        /\ result = ParserOutput(gen, FromFirstMarker)

C16_Witness ==
    /\ ParseReturned
    /\ gen = "ai"
    /\ generated_text = <<"Eve gi prashanjata", ":", "\n">> \o ShortBlock \o GoodBlock("C")
    /\ Len(result) = 1
    /\ result[1].correct_answer = PyInt(2)

\* C17: every question a parser emits has exactly 4 options and an integer
\* correct_answer in 0..3.
C17_IntegerIndex ==
    ParseReturned =>
        \A k \in 1..Len(result) :
            /\ Len(result[k].options) = 4
            /\ result[k].correct_answer \in {PyInt(n) : n \in 0..3}

\* C18: for the text 'Energijata e sposobnost za vrshenje rabota.' and
\* count 1, the extractor yields a definition concept for the term with
\* that context, the prompt is a definition template, the 4 options are
\* distinct, exactly one of them is the context, and correct_answer points
\* at it.
C18_EnergyDefinition ==
    (/\ gen = "enhanced"
     /\ entry = "generate_questions"
     /\ pc = "returned"
     /\ num_questions = 1
     /\ chapter_content.sentences = <<EnergySentence>>)
        => /\ concepts = <<DefinitionRecord(Energijata, CtxA)>>
           /\ Len(result) = 1
           /\ \E t \in 1..Len(EnhancedTemplates("definition")) :
                 result[1].question
                     = Format(EnhancedTemplates("definition")[t], Energijata)
           /\ Len(result[1].options) = 4
           /\ Injective(result[1].options)
           /\ result[1].options[result[1].correct_answer + 1] = CtxA

\* the concepts call c extracts from its own text
OwnConcepts(c) == extract_meaningful_concepts(clean_text(calls[c].chapter_content))

\* The result of a returned call is one the call gives when it runs alone:
\* as many questions as its own count and concepts allow, each built from a
\* concept of its own text with the options drawn for that concept, no
\* term twice, and used_concepts holding the terms of its own questions.
CallsIsolated ==
    \A c \in CallIds :
        calls[c].pc = "returned" =>
            LET f == calls[c]
                own == OwnConcepts(c)
                TermAt(k) ==
                    CHOOSE x \in Range(own) :
                        \E t \in TemplateChoices(EnhancedTemplates(EnhancedFamily(x))) :
                            f.result[k].question
                                = Format(EnhancedTemplates(EnhancedFamily(x))[t], x.term)
            IN /\ Len(f.result) = Min(f.num_questions, Len(own))
               /\ \A k \in 1..Len(f.result) :
                    \E x \in Range(own) :
                    \E t \in TemplateChoices(EnhancedTemplates(EnhancedFamily(x))) :
                    \E r \in EnhancedGenerateOptions(x, own) :
                        f.result[k]
                            = Question(EnhancedTemplates(EnhancedFamily(x))[t], x.term, r)
               /\ f.used_concepts = {TermAt(k).term : k \in 1..Len(f.result)}
               /\ Cardinality(f.used_concepts) = Len(f.result)

\* C19: two generate_questions calls interleaved on one generator object do
\* not interfere: the result of each depends only on its own input, count
\* and draws, no call touches the used_concepts of the other, and every
\* question of each result has the question shape (4 pairwise distinct
\* options, correct_answer in 0..3).
C19_InterleavedCallsKeepShape ==
    /\ CallsIsolated
    /\ \A c \in CallIds :
          calls[c].pc = "returned" =>
              \A k \in 1..Len(calls[c].result) :
                  /\ Len(calls[c].result[k].options) = 4
                  /\ Injective(calls[c].result[k].options)
                  /\ calls[c].result[k].correct_answer \in 0..3

\* C20: every generate_questions call, for any content, count, mode and
\* remote outcome, ends by returning a list of questions (possibly empty);
\* it never raises.
C20_ReturnsListNeverRaises ==
    entry = "generate_questions"
        => /\ pc /= "raised"
           /\ pc = "returned"
                => \A k \in 1..Len(result) :
                      DOMAIN result[k] = {"question", "options", "correct_answer"}

ExtractReturned == pc = "returned" /\ entry = "extract_meaningful_concepts"

\* the highest confidence among the candidates of a term
BestConfidence(term) ==
    LET cs == Candidates(chapter_content.sentences)
        of == {cs[q].confidence : q \in {k \in 1..Len(cs) : cs[k].term = term}}
    IN CHOOSE m \in of : \A x \in of : x <= m

\* C21: extract_meaningful_concepts returns at most one record per term,
\* the record of a term has the highest confidence among the candidates of
\* the term, the records are in order of non-increasing confidence, at
\* most 10 are returned, and no record is cut while one of lower
\* confidence is kept.
C21_BestPerTermOrderedTopTen ==
    ExtractReturned =>
        LET cs == Candidates(chapter_content.sentences)
            kept == {concepts[k].term : k \in 1..Len(concepts)}
        IN /\ \A j, k \in 1..Len(concepts) :
                  concepts[j].term = concepts[k].term => j = k
           /\ \A k \in 1..Len(concepts) :
                  /\ \E q \in 1..Len(cs) : cs[q] = concepts[k]
                  /\ concepts[k].confidence = BestConfidence(concepts[k].term)
           /\ \A k \in 1..(Len(concepts) - 1) :
                  concepts[k].confidence >= concepts[k + 1].confidence
           /\ Len(concepts) <= 10
           /\ Len(concepts) = Min(10, Cardinality({cs[q].term : q \in 1..Len(cs)}))
           /\ \A q \in 1..Len(cs) :
                  cs[q].term \notin kept =>
                      \A k \in 1..Len(concepts) :
                          concepts[k].confidence >= BestConfidence(cs[q].term)

\* a text of 11 terms: a definition is kept, an explained term is cut
C21_Witness ==
    /\ ExtractReturned
    /\ Len(concepts) = 10
    /\ concepts[1].confidence = 9
    /\ concepts[10].confidence = 8
    /\ Cardinality({Candidates(chapter_content.sentences)[q].term :
                       q \in 1..Len(Candidates(chapter_content.sentences))}) = 11

\* str.upper on the letters of the terms of the texts
CapitalOf(c) ==
    CASE c = "a" -> "A" [] c = "c" -> "C" [] c = "e" -> "E" [] c = "g" -> "G"
      [] c = "i" -> "I" [] c = "j" -> "J" [] c = "k" -> "K" [] c = "l" -> "L"
      [] c = "n" -> "N" [] c = "o" -> "O" [] c = "p" -> "P" [] c = "r" -> "R"
      [] c = "s" -> "S" [] c = "t" -> "T" [] c = "v" -> "V" [] OTHER -> c

\* the term is a word of the stoplist, in whatever letter case
StoplistWord(term) == [k \in 1..Len(term) |-> CapitalOf(term[k])] \in Stoplist

\* the number of times the term occurs in the text
Occurrences(term) ==
    Cardinality({k \in 1..Len(chapter_content.sentences) :
                    chapter_content.sentences[k].term = term})

\* C22: a capitalized term of the text has a 'frequent' candidate record
\* exactly when it occurs at least 2 times and is not a stoplist word; the
\* context of the record states the number of occurrences; a stoplist word
\* is never among the concepts returned.
C22_FrequentIffTwiceAndNotStopword ==
    ExtractReturned =>
        LET text == chapter_content.sentences
            cs == Candidates(text)
            frequent(term) ==
                {q \in 1..Len(cs) : cs[q].term = term /\ cs[q].type = "frequent"}
        IN /\ \A k \in 1..Len(text) :
                  LET term == text[k].term
                  IN /\ frequent(term) /= {}
                        <=> (Occurrences(term) >= 2 /\ ~StoplistWord(term))
                     /\ \A q \in frequent(term) :
                           cs[q].context = FrequentContext(Occurrences(term))
           /\ \A k \in 1..Len(concepts) : ~StoplistWord(concepts[k].term)

CleanReturned == pc = "returned" /\ entry = "clean_text"

\* C23: the text returned by clean_text holds no run of two or more white
\* space characters.
C23_NoWhitespaceRun ==
    CleanReturned =>
        \A k \in 1..(Len(result) - 1) :
            ~(result[k] \in Whitespace /\ result[k + 1] \in Whitespace)

\* C29: clean_text is idempotent: cleaning the returned text again gives
\* the returned text.
C29_CleanTextIdempotent == CleanReturned => CleanText(result) = result

\* C24: every term of the domain vocabulary that occurs in the text as a
\* whole word, in any letter case, is among the candidate concepts of the
\* extractor before truncation (RobustQuizGenerator names it in title case,
\* AIQuizGenerator as the text writes it).
C24_VocabularyWordIsCandidate ==
    (pc = "returned" /\ entry = "extract_concepts") =>
        \A k \in 1..Len(generated_text) :
            LowerWord(generated_text[k]) \in Vocabulary(gen) =>
                (IF gen = "robust" THEN TitleWord(generated_text[k])
                 ELSE generated_text[k])
                    \in ExtractorCandidates(gen, generated_text)

\* an option assembler was called on its own and has returned
OptionsReturned == pc = "returned" /\ entry = "generate_options"

\* the positions of the returned options other than the correct one
DistractorPositions ==
    {j \in 1..Len(assembled[1].options) : j /= assembled[1].correct_index + 1}

\* the distractors the other concepts of the pool can offer: the contexts of
\* the other records (Enhanced), the definitions of the other known
\* concepts (Robust), one entry per other concept that has one
UsableOthers ==
    IF gen = "enhanced"
    THEN LET others == OtherConcepts(concepts, assembled[1].concept)
         IN [k \in {j \in 1..Len(others) : others[j].context /= <<>>}
                |-> Truncate(others[k].context, 100)]
    ELSE LET others == RobustOthers(concepts, Lower(assembled[1].concept))
         IN [k \in {j \in 1..Len(others) : Lower(others[j]) \in physics_knowledge_keys}
                |-> physics_knowledge_definition(Lower(others[k]))]

\* the assembler of the claim was called: the definition assembler of
\* Enhanced or the assembler of Robust
DefinitionAssemblerCalled ==
    /\ OptionsReturned
    /\ \/ gen = "robust"
       \/ /\ gen = "enhanced"
          /\ \E k \in 1..Len(concepts) :
                 /\ concepts[k].term = assembled[1].concept
                 /\ concepts[k].type = "definition"

\* C25: the assembler returns exactly 3 distractors, and as many of them are
\* taken from the other concepts as there are other concepts with a usable
\* context, up to 3; generic sentences fill only the positions left.
C25_OtherContextsUsedFirst ==
    DefinitionAssemblerCalled =>
        /\ Cardinality(DistractorPositions) = 3
        /\ \E used \in SUBSET (DOMAIN UsableOthers) :
               /\ Cardinality(used) = Min(3, Cardinality(DOMAIN UsableOthers))
               /\ \E f \in [used -> DistractorPositions] :
                      /\ \A a, b \in used : f[a] = f[b] => a = b
                      /\ \A a \in used :
                             assembled[1].options[f[a]] = UsableOthers[a]

\* C26: no step of a generate_questions call changes the generator: the
\* mode, the credential, the template table and the knowledge table keep the
\* values the constructor gave them, on the remote path, on the fallback
\* and on the local path.
C26_GeneratorStateUnchanged ==
    [][/\ <<use_openai, openai_api_key, question_templates, physics_knowledge>>'
            = <<use_openai, openai_api_key, question_templates, physics_knowledge>>
       /\ question_templates' = QuestionTemplates(gen')
       /\ physics_knowledge' = PhysicsKnowledge(gen')]_vars

\* a call in remote mode with a key that fell back to the local pipeline
\* has returned questions
C26_Witness ==
    /\ pc = "returned"
    /\ entry = "generate_questions"
    /\ use_openai
    /\ openai_api_key = "sk-key"
    /\ network_calls >= 1
    /\ local_runs >= 1
    /\ result /= <<>>
    /\ question_templates = QuestionTemplates(gen)

\* the keywords of a list that occur in the text in some letter case
OccurringKeywords(keywords) ==
    {keyword \in keywords :
        Contains(LowerWord(JoinWords(generated_text)), LowerWord(keyword))}

\* C27: each of the three counts of detect_subject is the number of
\* keywords of the domain's list that occur in the text in any letter case,
\* the biology keyword written in capitals included.
C27_CountIgnoresCase ==
    (pc = "returned" /\ entry = "detect_subject" /\ gen = "ai") =>
        /\ chapter_content.scores[1] = Cardinality(OccurringKeywords(PhysicsKeywords))
        /\ chapter_content.scores[2] = Cardinality(OccurringKeywords(BiologyKeywords))
        /\ chapter_content.scores[3] = Cardinality(OccurringKeywords(ChemistryKeywords))

PrefixOf(letter) ==
    CASE letter = "A" -> "A)"
      [] letter = "B" -> "B)"
      [] letter = "C" -> "C)"
      [] OTHER -> "D)"

\* C30: for an accepted block whose correct-answer lines name letters that
\* option lines of the block carry, options[correct_answer] is the text of
\* an option line prefixed with a letter named on a correct-answer line,
\* whatever the order of the option lines.
C30_IndexNamesLetteredOption ==
    (ParseReturned /\ gen /= "quiz" /\ Len(TextBlocks) = 1 /\ Len(result) = 1) =>
        LET rest == Tail(StrippedLines(Split(TextBlocks[1], "\n")))
            marker_lines == {k \in 1..Len(rest) :
                                /\ Head(rest[k]) \notin OptionPrefixes
                                /\ StartsWith(rest[k], AnswerMarker)}
            named(k) == Strip(Split(rest[k], ":")[2])
            lettered(k) == {j \in 1..Len(rest) :
                               \E l \in Letters : /\ named(k) = <<l>>
                                                  /\ Head(rest[j]) = PrefixOf(l)}
            chosen == result[1].options[result[1].correct_answer.int + 1]
        IN (\A k \in marker_lines : lettered(k) /= {})
               => \E k \in marker_lines : \E j \in lettered(k) :
                      chosen = Strip(Tail(rest[j]))

============================================================================
